---------------------------- MODULE Spec2Model ----------------------------
(***************************************************************************)
(* feishu-mcp: the Markdown -> Feishu block converter                      *)
(* (tools/documents.py, _markdown_to_blocks and _text_element), the        *)
(* batched document writer (write_document_markdown, reached through       *)
(* server.call_tool) and the webhook event receiver (webhook/__init__.py,  *)
(* _verify_signature, receive_event and its two handlers).                 *)
(*                                                                         *)
(* A Python str is a sequence of one-character strings; a Python dict is a *)
(* function whose domain is its set of keys (a record), {} is the function *)
(* with the empty domain.  List indices stay 0-based as in the source, so  *)
(* lines[i] of the source is lines[i + 1] here.                            *)
(***************************************************************************)
EXTENDS Integers, Sequences, FiniteSets, TLC

VARIABLES
    md,             \* markdown_content, the input string
    parser,         \* the locals of one _markdown_to_blocks call
    document_id,    \* write_document_markdown: argument
    blocks,         \* write_document_markdown: parsed block list
    pc,             \* position of the write_document_markdown tool call
    batch_start,    \* loop variable of the batch loop
    total_created,  \* running total of blocks written
    last_data,      \* response of the last _post that returned
    calls,          \* the _post calls made, in order, each with its outcome
    trace,          \* external effects in order: "auth", "post", "sleep"
    raised,         \* the exception in flight, or NoError
    result,         \* value returned by write_document_markdown
    response,       \* what call_tool hands back to the MCP host
    hook,           \* one webhook request: ENCRYPT_KEY, the request, the locals
                    \* of receive_event and of its handlers, the answer
    peer,           \* a second webhook request, suspended while hook runs
    other,          \* a second call_tool request of the MCP host
    auth            \* auth.py: the token cache, the clock and the calls of
                    \* get_tenant_access_token

parseVars == <<md, parser>>
writeVars == <<document_id, blocks, pc, batch_start, total_created, last_data,
               calls, trace, raised, result, response>>
hostVars == <<peer, other, auth>>
vars == <<md, parser, document_id, blocks, pc, batch_start, total_created,
          last_data, calls, trace, raised, result, response, hook, peer,
          other, auth>>

(***************************************************************************)
(* Bounds of the model.                                                    *)
(***************************************************************************)
MaxLines == 3       \* lines of a markdown input of the parser specification
MaxDocBlocks == 120 \* lines of a generated document of the writer specification

(***************************************************************************)
(* Python str helpers.                                                     *)
(***************************************************************************)
NL == "\n"
Whitespace == {" ", "\t", "\r"}
Digits == {"0", "1", "2", "3", "4", "5", "6", "7", "8", "9"}

MinOf(S) == CHOOSE x \in S : \A y \in S : x <= y
MaxOf(S) == CHOOSE x \in S : \A y \in S : x >= y

\* s[a:] of Python with 0-based a
From(s, a) == SubSeq(s, a + 1, Len(s))

\* str.strip()
Strip(s) ==
    LET keep == {k \in 1..Len(s) : s[k] \notin Whitespace}
    IN  IF keep = {} THEN <<>> ELSE SubSeq(s, MinOf(keep), MaxOf(keep))

\* number of leading characters of s that lie in the set cs
LeadingRun(s, cs) ==
    LET stop == {k \in 1..Len(s) : s[k] \notin cs}
    IN  IF stop = {} THEN Len(s) ELSE MinOf(stop) - 1

Dist(a, b) == IF a < b THEN b - a ELSE a - b

\* str.split("\n"): cut at every newline.  The recursion cuts at the
\* newline nearest the middle first, which keeps it shallow on long texts.
RECURSIVE Split(_)
Split(s) ==
    LET nl == {k \in 1..Len(s) : s[k] = NL}
        p == CHOOSE k \in nl : \A o \in nl :
                 Dist(2 * k, Len(s)) < Dist(2 * o, Len(s))
                    \/ (Dist(2 * k, Len(s)) = Dist(2 * o, Len(s)) /\ k <= o)
    IN  IF nl = {} THEN <<s>>
        ELSE Split(SubSeq(s, 1, p - 1)) \o Split(From(s, p))

\* "\n".join(ls), by halves for the same reason
RECURSIVE Join(_)
Join(ls) ==
    IF ls = <<>> THEN <<>>
    ELSE IF Len(ls) = 1 THEN ls[1]
    ELSE LET h == Len(ls) \div 2
         IN  Join(SubSeq(ls, 1, h)) \o <<NL>> \o Join(SubSeq(ls, h + 1, Len(ls)))

(***************************************************************************)
(* _text_element: one text_run per text (documents.py 295-326).            *)
(***************************************************************************)
\* re.search(r"\[([^\]]+)\]\(([^)]+)\)", text): the matches, as
\* <<start, index of "]", index of ")">>, 1-based
LinkMatches(text) ==
    {m \in (1..Len(text)) \X (1..Len(text)) \X (1..Len(text)) :
        /\ text[m[1]] = "["
        /\ m[2] > m[1] + 1
        /\ \A k \in (m[1] + 1)..(m[2] - 1) : text[k] # "]"
        /\ text[m[2]] = "]"
        /\ m[2] + 1 <= Len(text)
        /\ text[m[2] + 1] = "("
        /\ m[3] > m[2] + 2
        /\ \A k \in (m[2] + 2)..(m[3] - 1) : text[k] # ")"
        /\ text[m[3]] = ")"}

\* the leftmost match, which is the one re.search returns
LinkMatch(text) ==
    CHOOSE m \in LinkMatches(text) : \A o \in LinkMatches(text) : m[1] <= o[1]

\* re.fullmatch(r"\*\*(.+)\*\*", text.strip())
BoldMatch(text) ==
    LET t == Strip(text)
    IN  /\ Len(t) >= 5
        /\ t[1] = "*" /\ t[2] = "*"
        /\ t[Len(t) - 1] = "*" /\ t[Len(t)] = "*"

BoldGroup(text) == LET t == Strip(text) IN SubSeq(t, 3, Len(t) - 2)

LinkElement(text) ==
    LET m == LinkMatch(text)
    IN  [text_run |->
            [content |-> SubSeq(text, m[1] + 1, m[2] - 1),
             text_element_style |->
                [link |-> [url |-> SubSeq(text, m[2] + 2, m[3] - 1)]]]]

BoldElement(text) ==
    [text_run |-> [content |-> BoldGroup(text),
                   text_element_style |-> [bold |-> TRUE]]]

PlainElement(text) == [text_run |-> [content |-> text]]

\* the bold test tried before the link test
text_element_bold_first(text) ==
    IF BoldMatch(text) THEN BoldElement(text)
    ELSE IF LinkMatches(text) # {} THEN LinkElement(text)
    ELSE PlainElement(text)

text_element(text) ==
    IF LinkMatches(text) # {} THEN LinkElement(text)
    ELSE IF BoldMatch(text) THEN BoldElement(text)
    ELSE PlainElement(text)

(***************************************************************************)
(* _markdown_to_blocks (documents.py 201-292).                             *)
(***************************************************************************)
EmptyDict == <<>>
\* U+0060, which a TLA+ string literal cannot hold
Backquote == "U+0060"
FenceMarker == <<Backquote, Backquote, Backquote>>
Plaintext == <<"p", "l", "a", "i", "n", "t", "e", "x", "t">>
BulletMarkers == {"-", "*", "+"}

\* re.match(r"^-{3,}$", line.strip())
IsDivider(line) ==
    LET t == Strip(line)
    IN  Len(t) >= 3 /\ \A k \in 1..Len(t) : t[k] = "-"

\* line.startswith(FenceMarker)
StartsWithFence(line) ==
    Len(line) >= 3 /\ SubSeq(line, 1, 3) = FenceMarker

\* line[3:].strip() or "plaintext"
FenceLanguage(line) ==
    IF Strip(From(line, 3)) = <<>> THEN Plaintext ELSE Strip(From(line, 3))

\* the pattern with one level too many: ^(#{1,6})\s+(.*)
HeadingLevelsUpTo6(line) ==
    {n \in 1..6 :
        /\ n < Len(line)
        /\ \A k \in 1..n : line[k] = "#"
        /\ line[n + 1] \in Whitespace}

\* re.match(r"^(#{1,5})\s+(.*)", line): the lengths group(1) can take
HeadingLevels(line) ==
    {n \in 1..5 :
        /\ n < Len(line)
        /\ \A k \in 1..n : line[k] = "#"
        /\ line[n + 1] \in Whitespace}

IsHeading(line) == HeadingLevels(line) # {}

\* len(heading_match.group(1)); the quantifier is greedy
HeadingLevel(line) == MaxOf(HeadingLevels(line))

\* heading_match.group(2).strip(): what follows the greedy \s+
HeadingText(line) ==
    LET n == HeadingLevel(line)
    IN  Strip(From(line, n + LeadingRun(From(line, n), Whitespace)))

\* re.match(r"^[\-\*\+]\s+", line)
IsBullet(line) ==
    Len(line) >= 2 /\ line[1] \in BulletMarkers /\ line[2] \in Whitespace

\* re.sub(r"^[\-\*\+]\s+", "", line).strip()
BulletText(line) ==
    Strip(From(line, 1 + LeadingRun(From(line, 1), Whitespace)))

\* re.match(r"^\d+\.\s+", line)
IsOrdered(line) ==
    LET d == LeadingRun(line, Digits)
    IN  /\ d >= 1
        /\ Len(line) >= d + 2
        /\ line[d + 1] = "."
        /\ line[d + 2] \in Whitespace

\* re.sub(r"^\d+\.\s+", "", line).strip()
OrderedText(line) ==
    LET d == LeadingRun(line, Digits)
    IN  Strip(From(line, d + 1 + LeadingRun(From(line, d + 1), Whitespace)))

\* line.strip() == ""
IsBlank(line) == Strip(line) = <<>>

DividerBlock == [block_type |-> 22, divider |-> EmptyDict]

CodeBlock(language, code_lines) ==
    [block_type |-> 14,
     code |-> [language |-> language,
               elements |-> <<[text_run |-> [content |-> Join(code_lines)]]>>]]

HeadingBlockType(level) == IF level + 2 < 7 THEN level + 2 ELSE 7

HeadingKey(level) == "heading" \o ToString(level)

HeadingBlock(level, text) ==
    ("block_type" :> HeadingBlockType(level))
        @@ (HeadingKey(level) :>
                [elements |-> <<text_element(text)>>, style |-> EmptyDict])

BulletBlock(text) ==
    [block_type |-> 12,
     bullet |-> [elements |-> <<text_element(text)>>, style |-> EmptyDict]]

OrderedBlock(text) ==
    [block_type |-> 13,
     ordered |-> [elements |-> <<text_element(text)>>, style |-> EmptyDict]]

TextBlock(line) ==
    [block_type |-> 2,
     text |-> [elements |-> <<text_element(line)>>, style |-> EmptyDict]]

\* The locals of the function at its entry.  origin is bookkeeping of the
\* model: origin[k] = <<first, last>>, the 0-based indices of the source
\* lines consumed for blocks[k]; fence_open is the index of the opening
\* fence of the code block being read.
ParserInit(text) ==
    [lines |-> Split(text), i |-> 0, blocks |-> <<>>, pc |-> "scan",
     code_lines |-> <<>>, language |-> <<>>, origin |-> <<>>, fence_open |-> 0]

ParserIdle ==
    [lines |-> <<>>, i |-> 0, blocks |-> <<>>, pc |-> "idle",
     code_lines |-> <<>>, language |-> <<>>, origin |-> <<>>, fence_open |-> 0]

\* while i < len(lines)
WhileCond(st) == st.i < Len(st.lines)

\* lines[i]; an index out of range raises IndexError
HasLine(st) == 0 <= st.i /\ st.i < Len(st.lines)
CurrentLine(st) == st.lines[st.i + 1]

\* the block put at the front: blocks.insert(0, b); i += 1; continue
EmitFront(st, b) ==
    [st EXCEPT !.blocks = <<b>> \o @,
               !.origin = <<<<st.i, st.i>>>> \o @,
               !.i = @ + 1]

\* blocks.append(b); i += 1; continue
Emit(st, b) ==
    [st EXCEPT !.blocks = Append(@, b),
               !.origin = Append(@, <<st.i, st.i>>),
               !.i = @ + 1]

\* the blank-line branch without its i += 1
SkipBlankStuck(st) == st

\* the blank-line branch: i += 1; continue
SkipBlank(st) == [st EXCEPT !.i = @ + 1]

\* the code-block branch up to its inner loop
OpenFence(st, line) ==
    [st EXCEPT !.code_lines = <<>>,
               !.language = FenceLanguage(line),
               !.fence_open = st.i,
               !.i = @ + 1,
               !.pc = "fence"]

\* the loop body without its divider branch
ScanLineNoDivider(st) ==
    LET line == CurrentLine(st)
    IN  IF StartsWithFence(line) THEN OpenFence(st, line)
        ELSE IF IsHeading(line)
            THEN Emit(st, HeadingBlock(HeadingLevel(line), HeadingText(line)))
        ELSE IF IsBullet(line) THEN Emit(st, BulletBlock(BulletText(line)))
        ELSE IF IsOrdered(line) THEN Emit(st, OrderedBlock(OrderedText(line)))
        ELSE IF IsBlank(line) THEN SkipBlank(st)
        ELSE Emit(st, TextBlock(line))

\* one pass of the outer loop body for the line at the cursor
ScanLine(st) ==
    LET line == CurrentLine(st)
    IN  IF IsDivider(line) THEN Emit(st, DividerBlock)
        ELSE IF StartsWithFence(line) THEN OpenFence(st, line)
        ELSE IF IsHeading(line)
            THEN Emit(st, HeadingBlock(HeadingLevel(line), HeadingText(line)))
        ELSE IF IsBullet(line) THEN Emit(st, BulletBlock(BulletText(line)))
        ELSE IF IsOrdered(line) THEN Emit(st, OrderedBlock(OrderedText(line)))
        ELSE IF IsBlank(line) THEN SkipBlank(st)
        ELSE Emit(st, TextBlock(line))

\* while i < len(lines) and not lines[i].startswith(FenceMarker)
FenceCond(st) == st.i < Len(st.lines) /\ ~StartsWithFence(CurrentLine(st))

\* code_lines.append(lines[i]); i += 1
FenceLine(st) ==
    [st EXCEPT !.code_lines = Append(@, CurrentLine(st)), !.i = @ + 1]

\* the code block appended without stepping over the closing fence
CloseFenceKeepsCloser(st) ==
    [st EXCEPT !.blocks = Append(@, CodeBlock(st.language, st.code_lines)),
               !.origin = Append(@, <<st.fence_open,
                                      IF st.i < Len(st.lines) THEN st.i
                                      ELSE Len(st.lines) - 1>>),
               !.pc = "scan"]

\* blocks.append({... 14 ...}); i += 1; continue
CloseFence(st) ==
    [st EXCEPT !.blocks = Append(@, CodeBlock(st.language, st.code_lines)),
               !.origin = Append(@, <<st.fence_open,
                                      IF st.i < Len(st.lines) THEN st.i
                                      ELSE Len(st.lines) - 1>>),
               !.i = @ + 1,
               !.pc = "scan"]

\* one step of the function: a pass of the outer loop, a pass of the inner
\* loop, or the return
ParserStep(st) ==
    IF st.pc = "scan"
        THEN IF ~WhileCond(st) THEN [st EXCEPT !.pc = "done"]
             ELSE IF ~HasLine(st) THEN [st EXCEPT !.pc = "raised"]
             ELSE ScanLine(st)
    ELSE IF st.pc = "fence"
        THEN IF FenceCond(st) THEN FenceLine(st) ELSE CloseFence(st)
    ELSE st

(***************************************************************************)
(* Inputs of the parser specification: every markdown text of at most      *)
(* MaxLines lines, each line one of the sample lines.                      *)
(***************************************************************************)
LineEmpty == <<>>
LineSpaces == <<" ", "\t">>
LineRule == <<"-", "-", "-">>
LineBullet == <<"-", " ", "A">>
LineH1 == <<"#", " ", "X">>
LineH2 == <<"#", "#", " ", " ", "X", " ">>
LineH3 == <<"#", "#", "#", " ", "X">>
LineH4 == <<"#", "#", "#", "#", " ", "X">>
LineH5 == <<"#", "#", "#", "#", "#", " ", "X">>
LineH6 == <<"#", "#", "#", "#", "#", "#", " ", "X">>
LineFence == <<Backquote, Backquote, Backquote>>
LineFencePy == <<Backquote, Backquote, Backquote, "p", "y", " ">>
LinePara == <<"a">>
LineOrdered == <<"1", ".", " ", "A">>

LineSamples ==
    {LineEmpty, LineSpaces, LineRule, LineBullet, LineH1,
     LineH2, LineH3, LineH4, LineH5, LineH6,
     LineFence, LineFencePy, LinePara, LineOrdered}

ParseInputs ==
    {Join(ls) : ls \in UNION {[1..n -> LineSamples] : n \in 1..MaxLines}}

NoError == [type |-> "none"]

\* no webhook request is being served
HookIdle == [pc |-> "idle"]

\* no second tool call, and get_tenant_access_token is not in use
OtherIdle == [pc |-> "idle"]
AuthIdle == [pc |-> "idle"]
HostIdle == peer = HookIdle /\ other = OtherIdle /\ auth = AuthIdle

WriterIdle ==
    /\ document_id = "none"
    /\ blocks = <<>>
    /\ pc = "idle"
    /\ batch_start = 0
    /\ total_created = 0
    /\ last_data = EmptyDict
    /\ calls = <<>>
    /\ trace = <<>>
    /\ raised = NoError
    /\ result = EmptyDict
    /\ response = <<>>

(***************************************************************************)
(* The parser specification: one _markdown_to_blocks call, step by step.   *)
(***************************************************************************)
ParseInit ==
    /\ md \in ParseInputs
    /\ parser = ParserInit(md)
    /\ WriterIdle
    /\ hook = HookIdle
    /\ HostIdle

\* a pass of the outer loop (lines 213-290)
ParseLine ==
    /\ parser.pc = "scan"
    /\ WhileCond(parser)
    /\ parser' = ParserStep(parser)
    /\ UNCHANGED <<hostVars, hook, md, writeVars>>

\* a pass of the inner loop (lines 227-229)
ParseFenceLine ==
    /\ parser.pc = "fence"
    /\ FenceCond(parser)
    /\ parser' = ParserStep(parser)
    /\ UNCHANGED <<hostVars, hook, md, writeVars>>

\* the inner loop ends and the code block is appended (lines 230-238)
ParseFenceClose ==
    /\ parser.pc = "fence"
    /\ ~FenceCond(parser)
    /\ parser' = ParserStep(parser)
    /\ UNCHANGED <<hostVars, hook, md, writeVars>>

\* the outer loop ends: return blocks (line 292)
ParseReturn ==
    /\ parser.pc = "scan"
    /\ ~WhileCond(parser)
    /\ parser' = ParserStep(parser)
    /\ UNCHANGED <<hostVars, hook, md, writeVars>>

ParseNext == ParseLine \/ ParseFenceLine \/ ParseFenceClose \/ ParseReturn

SpecParse == ParseInit /\ [][ParseNext]_vars

(***************************************************************************)
(* Properties of the parser specification.  The fenced regions are told    *)
(* from the lines alone: a line that starts with the fence marker opens a  *)
(* region when an even number of such lines precede it and closes one when *)
(* an odd number do.  Line indices j are 0-based.                          *)
(***************************************************************************)
WhitespaceOnly(line) == \A k \in 1..Len(line) : line[k] \in {" ", "\t", "\r"}

FencesBefore(ls, j) == Cardinality({m \in 1..j : StartsWithFence(ls[m])})

\* line j is the content or the closing fence of a region
InsideFence(ls, j) == FencesBefore(ls, j) % 2 = 1

\* line j is the opening fence of a region
OpensFence(ls, j) == ~InsideFence(ls, j) /\ StartsWithFence(ls[j + 1])

OutsideFence(ls, j) == ~InsideFence(ls, j) /\ ~OpensFence(ls, j)

\* the index of the fence that closes the region opened at line a, or
\* Len(ls) when the region runs to the end of the input
FenceEnd(ls, a) ==
    LET closers == {m \in (a + 1)..(Len(ls) - 1) : StartsWithFence(ls[m + 1])}
    IN  IF closers = {} THEN Len(ls) ELSE MinOf(closers)

\* what a text of the single line parses to
AloneBlocks(line) == ScanLine(ParserInit(line)).blocks

\* C7: the parser never raises; every pass of its outer or inner loop moves
\* the line cursor strictly forward and never past len(lines) + 1, so the
\* call ends; a whitespace-only line met outside a fence adds no block.
C7_ParserTotal ==
    /\ parser.pc # "raised"
    /\ parser.i <= Len(parser.lines) + 1
    /\ parser.pc \in {"scan", "fence"} =>
        LET n == ParserStep(parser)
        IN  /\ n.pc # "raised"
            /\ \/ n.i > parser.i
               \/ n.pc = "done" /\ parser.i >= Len(parser.lines)
    /\ (parser.pc = "scan" /\ parser.i < Len(parser.lines)
            /\ WhitespaceOnly(parser.lines[parser.i + 1])) =>
        ParserStep(parser).blocks = parser.blocks

\* blank lines, then a fence opened on the last line: the call returned
C7_Witness ==
    /\ parser.pc = "done"
    /\ parser.lines = <<LineSpaces, LineEmpty, LineFence>>
    /\ parser.i = 4
    /\ Len(parser.blocks) = 1

\* C8: blocks are in source order and every block has its own source lines:
\* block k comes from lines origin[k], the ranges are disjoint and
\* increasing, a code block covers one whole fenced region, any other block
\* is what its single non-blank line outside a fence parses to; at the end
\* every non-blank line outside a fence and every fenced region has a block.
C8_SourceOrder ==
    LET ls == parser.lines
        o == parser.origin
        b == parser.blocks
    IN  /\ Len(o) = Len(b)
        /\ \A k \in 1..Len(o) : 0 <= o[k][1] /\ o[k][1] <= o[k][2] /\ o[k][2] < Len(ls)
        /\ \A k \in 1..(Len(o) - 1) : o[k][2] < o[k + 1][1]
        /\ \A k \in 1..Len(o) :
            IF b[k].block_type = 14
                THEN /\ OpensFence(ls, o[k][1])
                     /\ o[k][2] = IF FenceEnd(ls, o[k][1]) < Len(ls)
                                  THEN FenceEnd(ls, o[k][1]) ELSE Len(ls) - 1
                ELSE /\ o[k][1] = o[k][2]
                     /\ OutsideFence(ls, o[k][1])
                     /\ ~WhitespaceOnly(ls[o[k][1] + 1])
                     /\ <<b[k]>> = AloneBlocks(ls[o[k][1] + 1])
        /\ parser.pc = "done" =>
            \A j \in 0..(Len(ls) - 1) :
                /\ (OutsideFence(ls, j) /\ ~WhitespaceOnly(ls[j + 1])) =>
                    Cardinality({k \in 1..Len(o) : o[k] = <<j, j>>}) = 1
                /\ OpensFence(ls, j) =>
                    Cardinality({k \in 1..Len(o) : o[k][1] = j}) = 1
                /\ (OutsideFence(ls, j) /\ WhitespaceOnly(ls[j + 1])) =>
                    ~\E k \in 1..Len(o) : o[k][1] <= j /\ j <= o[k][2]

\* two bullets around a blank line: two bullet blocks in source order
C8_Witness ==
    /\ parser.pc = "done"
    /\ parser.lines = <<LineBullet, LineEmpty, LineBullet>>
    /\ parser.origin = <<<<0, 0>>, <<2, 2>>>>
    /\ parser.blocks[1].block_type = 12
    /\ parser.blocks[2].block_type = 12

\* C9: a code block starts at a line that opens a fence, holds the lines up
\* to the next fence line (or the end of the input) joined by newlines, and
\* its language is the trimmed text after the marker, "plaintext" when that
\* is empty; no other block comes from the lines of the region, and at the
\* end every opening fence has exactly one code block.
C9_FenceConsumesVerbatim ==
    LET ls == parser.lines
        o == parser.origin
        b == parser.blocks
    IN  /\ \A k \in 1..Len(b) : b[k].block_type = 14 =>
            LET a == o[k][1]
                c == FenceEnd(ls, a)
                tag == Strip(SubSeq(ls[a + 1], 4, Len(ls[a + 1])))
            IN  /\ OpensFence(ls, a)
                /\ o[k][2] = IF c < Len(ls) THEN c ELSE Len(ls) - 1
                /\ b[k] = [block_type |-> 14,
                           code |-> [language |-> IF tag = <<>> THEN Plaintext ELSE tag,
                                     elements |-> <<[text_run |->
                                        [content |-> Join(SubSeq(ls, a + 2, c))]]>>]]
                /\ \A x \in 1..Len(b) :
                    x # k => (o[x][2] < a \/ o[x][1] > o[k][2])
        /\ parser.pc = "done" =>
            \A j \in 0..(Len(ls) - 1) : OpensFence(ls, j) =>
                Cardinality({k \in 1..Len(b) :
                    b[k].block_type = 14 /\ o[k][1] = j}) = 1

\* a fence tagged py around a rule line: one code block holding "---"
C9_Witness ==
    /\ parser.pc = "done"
    /\ parser.lines = <<LineFencePy, LineRule, LineFence>>
    /\ parser.blocks = <<CodeBlock(<<"p", "y">>, <<LineRule>>)>>

HeadingKeys == <<"heading1", "heading2", "heading3", "heading4", "heading5">>

Hashes(line) == LeadingRun(line, {"#"})

\* C10: a line read outside a fence with exactly L leading "#", L in 1..5,
\* then whitespace gives one block of type L + 2 under the key heading<L>
\* whose single element is the span of the trimmed text after the marker; a
\* line with 6 or more leading "#" gives a paragraph; no block has a
\* heading key above 5 or a heading type above 7.
C10_HeadingLevels ==
    LET ls == parser.lines
        o == parser.origin
        b == parser.blocks
    IN  /\ \A k \in 1..Len(b) : b[k].block_type # 14 =>
            LET line == ls[o[k][1] + 1]
                h == Hashes(line)
            IN  /\ (h \in 1..5 /\ Len(line) > h /\ line[h + 1] \in {" ", "\t", "\r"}) =>
                    b[k] = ("block_type" :> (h + 2))
                            @@ (HeadingKeys[h] :>
                                  [elements |-> <<text_element(Strip(From(line, h)))>>,
                                   style |-> EmptyDict])
                /\ h >= 6 => (b[k].block_type = 2 /\ DOMAIN b[k] = {"block_type", "text"})
        /\ \A k \in 1..Len(b) :
            /\ DOMAIN b[k] \subseteq
                {"block_type", "divider", "code", "bullet", "ordered", "text"}
                    \cup {HeadingKeys[n] : n \in 1..5}
            /\ \A n \in 1..5 : HeadingKeys[n] \in DOMAIN b[k] <=> b[k].block_type = n + 2
        /\ parser.pc = "done" =>
            \A j \in 0..(Len(ls) - 1) :
                (OutsideFence(ls, j) /\ Hashes(ls[j + 1]) >= 1) =>
                    Cardinality({k \in 1..Len(b) : o[k] = <<j, j>>}) = 1

\* levels 5 and 2 became headings of type 7 and 4, six hashes a paragraph
C10_Witness ==
    /\ parser.pc = "done"
    /\ parser.lines = <<LineH5, LineH6, LineH2>>
    /\ parser.blocks[1] = [block_type |-> 7,
                           heading5 |-> [elements |-> <<PlainElement(<<"X">>)>>,
                                         style |-> EmptyDict]]
    /\ parser.blocks[2].block_type = 2
    /\ parser.blocks[3] = [block_type |-> 4,
                           heading2 |-> [elements |-> <<PlainElement(<<"X">>)>>,
                                         style |-> EmptyDict]]


(***************************************************************************)
(* Inputs of the writer specification: generated documents of n lines,     *)
(* line k holding the decimal numeral of k, so that all blocks differ.     *)
(***************************************************************************)
DigitChars == <<"0", "1", "2", "3", "4", "5", "6", "7", "8", "9">>

RECURSIVE Decimal(_)
Decimal(k) ==
    IF k < 10 THEN <<DigitChars[k + 1]>>
    ELSE Decimal(k \div 10) \o <<DigitChars[(k % 10) + 1]>>

DocKinds == {"paragraphs", "bullets", "fenced", "blank"}

DocLine(kind, k) ==
    IF kind = "paragraphs" THEN Decimal(k)
    ELSE IF kind = "bullets" THEN <<"-", " ">> \o Decimal(k)
    ELSE IF kind = "fenced"
        THEN IF k % 3 = 1 THEN FenceMarker
             ELSE IF k % 3 = 2 THEN Decimal(k)
             ELSE FenceMarker \o <<" ">>
    ELSE IF k % 2 = 0 THEN <<" ">> ELSE <<>>

GeneratedDoc(kind, n) == Join([k \in 1..n |-> DocLine(kind, k)])

WriteInputs == {GeneratedDoc(kind, n) : kind \in DocKinds, n \in 0..MaxDocBlocks}

DocumentIds == {"docA", "docB"}

(***************************************************************************)
(* _post as write_document_markdown sees it (documents.py 37-55): it       *)
(* returns the decoded body when the body is JSON with code 0 and the      *)
(* status is below 400, and raises otherwise.                              *)
(***************************************************************************)
PyNone == [py_none |-> TRUE]

\* bodies _post returns
PostResponses ==
    {[code |-> 0, data |-> [document_revision_id |-> 2, children |-> <<>>]],
     [code |-> 0, data |-> [blocks_created |-> 0]],
     [code |-> 0, data |-> PyNone],
     [code |-> 0]}

\* ways _post raises: get_auth_headers raises, client.post raises, the body
\* is no JSON, code is not 0, status is 400 or more
PostFailures == {"auth", "transport", "non_json", "api_code", "http_status"}

\* the exception _post raises: a RuntimeError whose message names the path
\* and the code, msg, status or body of the response, or whatever
\* get_auth_headers or httpx raised
PostError(path, failure) ==
    IF failure \in {"api_code", "http_status", "non_json"}
        THEN [type |-> "RuntimeError",
              message |-> [path |-> path, failure |-> failure]]
        ELSE [type |-> "Exception", message |-> [failure |-> failure]]

(***************************************************************************)
(* write_document_markdown (documents.py 146-198).                         *)
(***************************************************************************)
BATCH_SIZE == 50

\* api_path (line 179)
ApiPath(id) == [documents |-> id, blocks |-> id]

\* the slice with its end not offset by the start:
\* blocks[batch_start : BATCH_SIZE]
BatchEndNotOffset(bl, start) ==
    SubSeq(bl, start + 1, IF BATCH_SIZE < Len(bl) THEN BATCH_SIZE ELSE Len(bl))

\* blocks[batch_start : batch_start + BATCH_SIZE]
Batch(bl, start) ==
    SubSeq(bl, start + 1,
           IF start + BATCH_SIZE < Len(bl) THEN start + BATCH_SIZE ELSE Len(bl))

\* payload (lines 183-186)
Payload(batch) == [children |-> batch, index |-> -1]

\* _post(api_path, payload) of line 187, logged with how it ended
PostCall(id, bl, start, outcome) ==
    [path |-> ApiPath(id), payload |-> Payload(Batch(bl, start)), outcome |-> outcome]

\* the pacing test off by one: batch_start + BATCH_SIZE <= len(blocks)
MoreBatchesInclusive(bl, start) == start + BATCH_SIZE <= Len(bl)

\* batch_start + BATCH_SIZE < len(blocks)
MoreBatches(bl, start) == start + BATCH_SIZE < Len(bl)

\* last_data.get("data", {})
DataOf(last) == IF "data" \in DOMAIN last THEN last.data ELSE EmptyDict

\* {"blocks_created": total_created, **data}: later keys win
ResultDict(total, data) == data @@ [blocks_created |-> total]

\* {**x} of a value that is no mapping raises TypeError
UnpackError == [type |-> "TypeError", message |-> [failure |-> "not_a_mapping"]]

(***************************************************************************)
(* server.call_tool (server.py 469-477) around the tool.                   *)
(***************************************************************************)
\* [TextContent(type="text", text=json.dumps(result))]
ToolSuccess(res) == <<[type |-> "text", text |-> res]>>

\* [TextContent(type="text", text=json.dumps({"error": str(e)}))]
ToolFailure(e) == <<[type |-> "text", text |-> [error |-> e.message]]>>

(***************************************************************************)
(* The writer specification: one write_document_markdown tool call.        *)
(***************************************************************************)
Init ==
    /\ md \in WriteInputs
    /\ parser = ParserIdle
    /\ document_id \in DocumentIds
    /\ blocks = <<>>
    /\ pc = "start"
    /\ batch_start = 0
    /\ total_created = 0
    /\ last_data = EmptyDict
    /\ calls = <<>>
    /\ trace = <<>>
    /\ raised = NoError
    /\ result = EmptyDict
    /\ response = <<>>
    /\ hook = HookIdle
    /\ HostIdle

\* call_tool dispatches to write_document_markdown, which calls
\* _markdown_to_blocks(markdown_content) (line 167)
Start ==
    /\ pc = "start"
    /\ parser' = ParserInit(md)
    /\ pc' = "parsing"
    /\ UNCHANGED <<hostVars, hook, md, document_id, blocks, batch_start, total_created,
                   last_data, calls, trace, raised, result, response>>

\* the parser returned and the empty list is not singled out
ParsedNoEmptyCheck ==
    /\ pc = "parsing"
    /\ parser.pc = "done"
    /\ blocks' = parser.blocks
    /\ pc' = "batch"
    /\ result' = EmptyDict
    /\ batch_start' = 0
    /\ total_created' = 0
    /\ last_data' = EmptyDict
    /\ UNCHANGED <<hostVars, hook, md, parser, document_id, calls, trace, raised, response>>

\* lines 167-179: the parser returned; return {} when the list is empty
Parsed ==
    /\ pc = "parsing"
    /\ parser.pc = "done"
    /\ blocks' = parser.blocks
    /\ pc' = IF blocks' = <<>> THEN "returned" ELSE "batch"
    /\ result' = EmptyDict
    /\ batch_start' = 0
    /\ total_created' = 0
    /\ last_data' = EmptyDict
    /\ UNCHANGED <<hostVars, hook, md, parser, document_id, calls, trace, raised, response>>

\* lines 181-195, _post returns: count the batch, then sleep or go on
PostReturns ==
    /\ pc = "batch"
    /\ batch_start < Len(blocks)
    /\ \E resp \in PostResponses :
        /\ calls' = Append(calls, PostCall(document_id, blocks, batch_start, "returned"))
        /\ trace' = trace \o <<"auth", "post">>
        /\ last_data' = resp
        /\ total_created' = total_created + Len(Batch(blocks, batch_start))
        /\ IF MoreBatches(blocks, batch_start)
            THEN pc' = "sleep" /\ batch_start' = batch_start
            ELSE pc' = "batch" /\ batch_start' = batch_start + BATCH_SIZE
    /\ UNCHANGED <<hostVars, hook, md, parser, document_id, blocks, raised, result, response>>

\* _post raises and the loop swallows the exception and goes on
PostRaisesAndContinues ==
    /\ pc = "batch"
    /\ batch_start < Len(blocks)
    /\ \E failure \in PostFailures :
        /\ calls' = Append(calls, PostCall(document_id, blocks, batch_start, "raised"))
        /\ trace' = IF failure = "auth" THEN Append(trace, "auth")
                    ELSE trace \o <<"auth", "post">>
    /\ batch_start' = batch_start + BATCH_SIZE
    /\ UNCHANGED <<hostVars, hook, md, parser, document_id, blocks, pc, total_created,
                   last_data, raised, result, response>>

\* line 187, _post raises: the exception leaves write_document_markdown
PostRaises ==
    /\ pc = "batch"
    /\ batch_start < Len(blocks)
    /\ \E failure \in PostFailures :
        /\ calls' = Append(calls, PostCall(document_id, blocks, batch_start, "raised"))
        /\ trace' = IF failure = "auth" THEN Append(trace, "auth")
                    ELSE trace \o <<"auth", "post">>
        /\ raised' = PostError(ApiPath(document_id), failure)
        /\ pc' = "raised"
    /\ UNCHANGED <<hostVars, hook, md, parser, document_id, blocks, batch_start, total_created,
                   last_data, result, response>>

\* line 195: _time.sleep(0.4), then the next pass of the loop
Sleep ==
    /\ pc = "sleep"
    /\ trace' = Append(trace, "sleep")
    /\ batch_start' = batch_start + BATCH_SIZE
    /\ pc' = "batch"
    /\ UNCHANGED <<hostVars, hook, md, parser, document_id, blocks, total_created, last_data,
                   calls, raised, result, response>>

\* lines 197-198: the loop is over, build the result
Return ==
    /\ pc = "batch"
    /\ batch_start >= Len(blocks)
    /\ IF DataOf(last_data) = PyNone
        THEN /\ raised' = UnpackError
             /\ pc' = "raised"
             /\ UNCHANGED result
        ELSE /\ result' = ResultDict(total_created, DataOf(last_data))
             /\ pc' = "returned"
             /\ UNCHANGED raised
    /\ UNCHANGED <<hostVars, hook, md, parser, document_id, blocks, batch_start, total_created,
                   last_data, calls, trace, response>>

\* server.py 473-474
CallToolReturns ==
    /\ pc = "returned"
    /\ response' = ToolSuccess(result)
    /\ pc' = "done"
    /\ UNCHANGED <<hostVars, hook, md, parser, document_id, blocks, batch_start, total_created,
                   last_data, calls, trace, raised, result>>

\* server.py 475-477
CallToolExcept ==
    /\ pc = "raised"
    /\ response' = ToolFailure(raised)
    /\ pc' = "failed"
    /\ UNCHANGED <<hostVars, hook, md, parser, document_id, blocks, batch_start, total_created,
                   last_data, calls, trace, raised, result>>

Next ==
    \/ Start
    \/ ParseNext
    \/ Parsed
    \/ PostReturns
    \/ PostRaises
    \/ Sleep
    \/ Return
    \/ CallToolReturns
    \/ CallToolExcept

Spec == Init /\ [][Next]_vars

(***************************************************************************)
(* Properties of the writer specification.                                 *)
(***************************************************************************)
CeilDiv(a, b) == (a + b - 1) \div b

\* the k-th slice of 50 blocks, k from 1
Slice50(bl, k) ==
    SubSeq(bl, 50 * (k - 1) + 1, IF 50 * k < Len(bl) THEN 50 * k ELSE Len(bl))

\* the batches of the calls made so far, concatenated in call order
RECURSIVE SentUpTo(_)
SentUpTo(k) ==
    IF k = 0 THEN <<>> ELSE SentUpTo(k - 1) \o calls[k].payload.children

\* some _post call raised
WriterFailed == \E k \in 1..Len(calls) : calls[k].outcome = "raised"

\* the batch loop ran to its end
LoopOver ==
    \/ pc = "batch" /\ batch_start >= Len(blocks)
    \/ pc \in {"returned", "done"} /\ blocks # <<>>
    \/ pc \in {"raised", "failed"} /\ raised = UnpackError

\* the external effects other than the token lookups
RECURSIVE Effects(_)
Effects(t) ==
    IF t = <<>> THEN <<>>
    ELSE IF Head(t) = "auth" THEN Effects(Tail(t))
    ELSE <<Head(t)>> \o Effects(Tail(t))

\* C1: the k-th writer call carries blocks[50(k-1) .. min(50k, n)-1], a batch
\* of 1 to 50 blocks, so the batches sent are a prefix of the block list in
\* source order; once the loop is over without a writer failure exactly
\* ceil(n/50) calls were made and their batches concatenate to the block list.
C1_BatchesAreThe50Slices ==
    /\ \A k \in 1..Len(calls) :
        /\ calls[k].payload.children = Slice50(blocks, k)
        /\ Len(calls[k].payload.children) \in 1..50
    /\ Len(calls) <= CeilDiv(Len(blocks), 50)
    /\ LoopOver =>
        /\ Len(calls) = CeilDiv(Len(blocks), 50)
        /\ SentUpTo(Len(calls)) = blocks

\* 120 blocks went out as 50, 50, 20
C1_Witness ==
    /\ pc = "done"
    /\ Len(blocks) = 120
    /\ Len(calls) = 3
    /\ Len(calls[1].payload.children) = 50
    /\ Len(calls[2].payload.children) = 50
    /\ Len(calls[3].payload.children) = 20

\* C2: a writer call that raised is the last call ever made (no later batch,
\* no retry, no compensating call), the batches before it stay counted as
\* written, and the caller gets the failure, not a result.
C2_FailureAborts ==
    /\ \A k \in 1..Len(calls) : calls[k].outcome = "raised" =>
        /\ k = Len(calls)
        /\ pc \in {"raised", "failed"}
        /\ raised \in {PostError(ApiPath(document_id), f) : f \in PostFailures}
        /\ total_created = 50 * (k - 1)
        /\ \A j \in 1..(k - 1) : calls[j].outcome = "returned"
        /\ result = EmptyDict
        /\ pc = "failed" => response = ToolFailure(raised)
    /\ (pc = "done") => ~WriterFailed

\* the second of three writer calls failed: 50 blocks written, no third call
C2_Witness ==
    /\ pc = "failed"
    /\ Len(blocks) = 120
    /\ Len(calls) = 2
    /\ calls[2].outcome = "raised"
    /\ total_created = 50

\* C3 as claimed: after a writer failure the error handed to the caller
\* carries the number of blocks written before the failure.
C3_ErrorCarriesProgress ==
    (pc = "failed" /\ WriterFailed) =>
        LET text == response[1].text
        IN  \/ "blocks_created" \in DOMAIN text /\ text.blocks_created = total_created
            \/ /\ "blocks_created" \in DOMAIN text.error
               /\ text.error.blocks_created = total_created

\* C4: leaving the token lookups aside, the external effects alternate
\* post, sleep, post, ... starting with a post, and a submission whose loop
\* is over without a writer failure made b posts and b - 1 sleeps, the last
\* effect being a post (b = ceil(n/50)).
C4_PacingBetweenBatches ==
    LET e == Effects(trace)
    IN  /\ \A j \in 1..Len(e) : e[j] = IF j % 2 = 1 THEN "post" ELSE "sleep"
        /\ LoopOver => Len(e) = 2 * CeilDiv(Len(blocks), 50) - 1

\* 100 blocks, an exact multiple of 50: two posts, one sleep between them
C4_Witness ==
    /\ pc = "done"
    /\ Len(blocks) = 100
    /\ Effects(trace) = <<"post", "sleep", "post">>

C6_BlocksCreatedIsTotal ==
    (pc \in {"returned", "done"} /\ blocks # <<>>) =>
        /\ "blocks_created" \in DOMAIN result
        /\ result.blocks_created = Len(blocks)


(***************************************************************************)
(* The line specification: _markdown_to_blocks on every short line over    *)
(* the characters the patterns of lines 216-290 look at, and on every text *)
(* put together from the pieces the patterns of _text_element look at.     *)
(***************************************************************************)
MaxLineLen == 4     \* characters of an enumerated line
MaxPieces == 4      \* pieces of an enumerated inline text

LineAlphabet == {"-", "*", "#", "1", ".", " ", "a"}

AllSeqs(S, n) == UNION {[1..k -> S] : k \in 0..n}

PieceBold == <<"*", "*">>
PieceLabel == <<"[", "T", "]">>
PieceUrl == <<"(", "u", ")">>

Pieces ==
    {PieceBold, PieceLabel, PieceUrl, <<"[", "V", "]">>,
     <<"a">>, <<" ">>, <<"[">>, <<"]", "(">>}

RECURSIVE Flatten(_)
Flatten(ps) == IF ps = <<>> THEN <<>> ELSE Head(ps) \o Flatten(Tail(ps))

TextInputs == {Flatten(ps) : ps \in AllSeqs(Pieces, MaxPieces)}

\* texts of several lines: the kinds of the claim side by side, and the
\* same lines inside a fence
KindsSample == Join(<<LineRule, LineBullet, LineOrdered, LineEmpty, LinePara>>)
FencedSample == Join(<<LineFence, LineBullet, LineRule, LineFence, LineRule>>)
OpenFenceSample == Join(<<LinePara, LineFencePy, LineOrdered>>)

LineInputs ==
    AllSeqs(LineAlphabet, MaxLineLen) \cup TextInputs
        \cup {KindsSample, FencedSample, OpenFenceSample,
              <<"+", " ", "a">>, <<"+", "a">>, <<"+">>, <<" ", "+", " ", "a">>,
              <<"-", "\t", "a">>, <<"1", "1", ".", "\t", "a">>}

LineInit ==
    /\ md \in LineInputs
    /\ parser = ParserInit(md)
    /\ WriterIdle
    /\ hook = HookIdle
    /\ HostIdle

SpecLine == LineInit /\ [][ParseNext]_vars

\* the first pattern of lines 216-290 a line matches, in the order of the
\* source
KindOf(line) ==
    IF IsDivider(line) THEN "divider"
    ELSE IF StartsWithFence(line) THEN "fence"
    ELSE IF IsHeading(line) THEN "heading"
    ELSE IF IsBullet(line) THEN "bullet"
    ELSE IF IsOrdered(line) THEN "ordered"
    ELSE IF IsBlank(line) THEN "blank"
    ELSE "paragraph"

\* the block type and the content key of a kind
KindShape(kind, line) ==
    IF kind = "divider" THEN <<22, "divider">>
    ELSE IF kind = "heading"
        THEN <<Hashes(line) + 2, HeadingKeys[Hashes(line)]>>
    ELSE IF kind = "bullet" THEN <<12, "bullet">>
    ELSE IF kind = "ordered" THEN <<13, "ordered">>
    ELSE <<2, "text">>

\* the blocks made from line j alone
BlocksOfLine(j) ==
    {k \in 1..Len(parser.blocks) : parser.origin[k] = <<j, j>>}

\* C11: a line read outside a fence gets exactly one kind, the first that
\* matches in the order divider (3 or more hyphens and nothing else after
\* trimming), fence opener, heading, bullet ("-", "*" or "+" then
\* whitespace), ordered (digits, ".", whitespace), blank, paragraph: a blank
\* line gives no block, every other one exactly one block of the type and
\* key of its kind (divider 22, bullet 12, ordered 13, paragraph 2), so
\* "---" is a divider and never a bullet and every line that matches none
\* of the patterns and is not blank is a paragraph.
C11_OneKindPerLine ==
    LET ls == parser.lines
        b == parser.blocks
    IN  parser.pc = "done" =>
            \A j \in 0..(Len(ls) - 1) : OutsideFence(ls, j) =>
                LET line == ls[j + 1]
                    t == Strip(line)
                    kind == KindOf(line)
                    ks == BlocksOfLine(j)
                IN  /\ kind # "fence"
                    /\ kind = "blank" => ks = {}
                    /\ kind # "blank" =>
                        /\ Cardinality(ks) = 1
                        /\ \A k \in ks :
                            /\ b[k].block_type = KindShape(kind, line)[1]
                            /\ DOMAIN b[k] = {"block_type", KindShape(kind, line)[2]}
                    /\ (Len(t) >= 3 /\ \A c \in 1..Len(t) : t[c] = "-") =>
                            \A k \in ks : b[k] = [block_type |-> 22, divider |-> <<>>]
                    /\ (Len(line) >= 2 /\ line[1] \in {"-", "*", "+"}
                            /\ line[2] \in {" ", "\t"}) =>
                            \A k \in ks : b[k].block_type = 12
                    /\ (\E d \in 1..Len(line) :
                            /\ \A c \in 1..d : line[c] \in Digits
                            /\ Len(line) >= d + 2
                            /\ line[d + 1] = "."
                            /\ line[d + 2] \in {" ", "\t"}) =>
                            \A k \in ks : b[k].block_type = 13
                    /\ kind = "paragraph" =>
                            \A k \in ks : b[k] = [block_type |-> 2,
                                text |-> [elements |-> <<text_element(line)>>,
                                          style |-> <<>>]]

\* a rule, a bullet, an ordered item, a blank line and a paragraph side by
\* side gave the types 22, 12, 13 and 2, and nothing for the blank line
C11_Witness ==
    /\ parser.pc = "done"
    /\ parser.lines = <<LineRule, LineBullet, LineOrdered, LineEmpty, LinePara>>
    /\ Len(parser.blocks) = 4
    /\ parser.blocks[1] = [block_type |-> 22, divider |-> <<>>]
    /\ parser.blocks[2].block_type = 12
    /\ parser.blocks[3].block_type = 13
    /\ parser.blocks[4].block_type = 2

\* an occurrence of [label](url) starts at s, with a label of n and a url
\* of m characters: the label holds no "]", the url no ")", neither is empty
LinkLabel(text, s, n) == SubSeq(text, s + 1, s + n)
LinkUrl(text, s, n, m) == SubSeq(text, s + n + 3, s + n + m + 2)

LinkAt(text, s, n, m) ==
    /\ n >= 1 /\ m >= 1
    /\ s + n + m + 3 <= Len(text)
    /\ SubSeq(text, s, s + n + m + 3)
            = <<"[">> \o LinkLabel(text, s, n) \o <<"]", "(">>
                \o LinkUrl(text, s, n, m) \o <<")">>
    /\ \A c \in 1..n : LinkLabel(text, s, n)[c] # "]"
    /\ \A c \in 1..m : LinkUrl(text, s, n, m)[c] # ")"

LinkStarts(text) ==
    {s \in 1..Len(text) :
        \E n \in 1..Len(text), m \in 1..Len(text) : LinkAt(text, s, n, m)}

\* the trimmed text begins and ends with the bold marker around something
Wrapped(text) ==
    LET t == Strip(text)
    IN  /\ Len(t) >= 5
        /\ SubSeq(t, 1, 2) = <<"*", "*">>
        /\ SubSeq(t, Len(t) - 1, Len(t)) = <<"*", "*">>

\* C12: _text_element gives exactly one span for every text.  A text that
\* holds [label](url) anywhere gives a link span of the first occurrence,
\* content the label and link url the url, also when the text is wrapped in
\* the bold marker; otherwise a text that after trimming is wrapped in the
\* bold marker gives a bold span of the inner text; otherwise the span is
\* plain and holds the text unchanged.  A text whose bold markers wrap only
\* a part of it never gives a bold span.
C12_OneSpanByPrecedence ==
    LET ls == parser.lines
        b == parser.blocks
    IN  \A k \in 1..Len(b) : b[k].block_type = 2 =>
            LET text == ls[parser.origin[k][1] + 1]
                spans == b[k].text.elements
                run == spans[1].text_run
                starts == LinkStarts(text)
            IN  /\ Len(spans) = 1
                /\ DOMAIN spans[1] = {"text_run"}
                /\ starts # {} =>
                    \E n \in 1..Len(text), m \in 1..Len(text) :
                        /\ LinkAt(text, MinOf(starts), n, m)
                        /\ run = [content |-> LinkLabel(text, MinOf(starts), n),
                                  text_element_style |->
                                    [link |-> [url |-> LinkUrl(text, MinOf(starts), n, m)]]]
                /\ (starts = {} /\ Wrapped(text)) =>
                        run = [content |-> SubSeq(Strip(text), 3, Len(Strip(text)) - 2),
                               text_element_style |-> [bold |-> TRUE]]
                /\ (starts = {} /\ ~Wrapped(text)) => run = [content |-> text]
                /\ ~Wrapped(text) =>
                        ~(/\ "text_element_style" \in DOMAIN run
                          /\ "bold" \in DOMAIN run.text_element_style)

\* a link inside bold markers became a link span, not a bold one
C12_Witness ==
    /\ parser.pc = "done"
    /\ parser.lines = <<PieceBold \o PieceLabel \o PieceUrl \o PieceBold>>
    /\ parser.blocks = <<[block_type |-> 2,
            text |-> [elements |->
                        <<[text_run |->
                            [content |-> <<"T">>,
                             text_element_style |-> [link |-> [url |-> <<"u">>]]]]>>,
                      style |-> <<>>]]>>

(***************************************************************************)
(* The webhook event receiver (webhook/__init__.py).                       *)
(*                                                                         *)
(* A JSON value is held as Python holds it, tagged with its type; a dict   *)
(* is a record of its keys.  What a Python expression gives is a record    *)
(* [exc, value]: exc is "none" and value the result, or exc names the      *)
(* exception it raised.                                                    *)
(***************************************************************************)
JDict(f) == [t |-> "dict", v |-> f]
JStr(s) == [t |-> "str", v |-> s]
JInt(n) == [t |-> "int", v |-> n]
JList(l) == [t |-> "list", v |-> l]
JNone == [t |-> "NoneType", v |-> <<>>]

Returned(x) == [exc |-> "none", value |-> x]
Raised(e) == [exc |-> e, value |-> JNone]

\* bool(x)
Truthy(x) ==
    IF x.t = "dict" THEN DOMAIN x.v # {}
    ELSE IF x.t \in {"str", "list"} THEN Len(x.v) > 0
    ELSE IF x.t = "int" THEN x.v # 0
    ELSE FALSE

\* needle occurs in the str s
IsInfix(needle, s) ==
    \E a \in 0..(Len(s) - Len(needle)) :
        SubSeq(s, a + 1, a + Len(needle)) = needle

\* name in x, for a str name given as the dict key and as its characters
PyIn(key, chars, x) ==
    IF x.t = "dict" THEN Returned(key \in DOMAIN x.v)
    ELSE IF x.t = "str" THEN Returned(IsInfix(chars, x.v))
    ELSE IF x.t = "list"
        THEN Returned(\E k \in 1..Len(x.v) :
                        x.v[k].t = "str" /\ x.v[k].v = chars)
    ELSE Raised("TypeError")

\* x.get(key, default)
PyGet(x, key, default) ==
    IF x.t # "dict" THEN Raised("AttributeError")
    ELSE IF key \in DOMAIN x.v THEN Returned(x.v[key])
    ELSE Returned(default)

\* x[key] for a str key
PyItem(x, key) ==
    IF x.t = "dict"
        THEN IF key \in DOMAIN x.v THEN Returned(x.v[key]) ELSE Raised("KeyError")
    ELSE Raised("TypeError")

(***************************************************************************)
(* Bytes and text.  A body is a sequence of bytes: an ASCII byte is        *)
(* written as its character, 0xC3 0xA9 is the UTF-8 form of U+00E9 and a   *)
(* lone 0x80 is no UTF-8 at all.                                           *)
(***************************************************************************)
EAcute == "U+00E9"

\* body.decode("utf-8") does not raise UnicodeDecodeError
Utf8Valid(b) ==
    \A k \in 1..Len(b) :
        /\ b[k] # "0x80"
        /\ b[k] = "0xC3" => (k < Len(b) /\ b[k + 1] = "0xA9")
        /\ b[k] = "0xA9" => (k > 1 /\ b[k - 1] = "0xC3")

\* body.decode("utf-8") of valid bytes
Utf8Text(b) ==
    LET heads == SelectSeq(b, LAMBDA x : x # "0xA9")
    IN  [k \in 1..Len(heads) |-> IF heads[k] = "0xC3" THEN EAcute ELSE heads[k]]

IsAscii(s) == \A k \in 1..Len(s) : s[k] \notin {EAcute, "0xC3", "0xA9", "0x80"}

\* hashlib.sha256(text.encode("utf-8")).hexdigest(): SHA-256 is taken to
\* be free of collisions, so the digest is a string of ASCII characters that
\* names the text, one digest for each text
Sha256Hex(text) ==
    <<"s", "h", "a", ":">> \o
        [k \in 1..Len(text) |-> IF text[k] = EAcute THEN "C3A9" ELSE text[k]]

\* hmac.compare_digest(a, b) of two str
compare_digest(a, b) ==
    IF ~IsAscii(a) \/ ~IsAscii(b) THEN Raised("TypeError") ELSE Returned(a = b)

\* the check without its open mode: an empty key is hashed like any other
verify_signature_no_open_mode(timestamp, nonce, encrypt_key, body, signature) ==
    IF ~Utf8Valid(body) THEN Raised("UnicodeDecodeError")
    ELSE compare_digest(
            Sha256Hex(timestamp \o nonce \o encrypt_key \o Utf8Text(body)),
            signature)

\* _verify_signature (lines 26-32)
verify_signature(timestamp, nonce, encrypt_key, body, signature) ==
    IF encrypt_key = <<>> THEN Returned(TRUE)
    ELSE IF ~Utf8Valid(body) THEN Raised("UnicodeDecodeError")
    ELSE LET raw == timestamp \o nonce \o encrypt_key \o Utf8Text(body)
             expected == Sha256Hex(raw)
         IN  compare_digest(expected, signature)

(***************************************************************************)
(* json.loads.  The texts below are the JSON documents of the model, each  *)
(* with the value json.loads gives for it; every other text of the model   *)
(* is not JSON.                                                            *)
(***************************************************************************)
MessageReceive ==
    <<"i", "m", ".", "m", "e", "s", "s", "a", "g", "e", ".", "r", "e",
      "c", "e", "i", "v", "e", "_", "v", "1">>
DrivePermission ==
    <<"d", "r", "i", "v", "e", ".", "f", "i", "l", "e", ".", "p", "e",
      "r", "m", "i", "s", "s", "i", "o", "n">>
PermissionApplied ==
    DrivePermission \o
    <<"_", "m", "e", "m", "b", "e", "r", "_", "a", "p", "p", "l", "i",
      "e", "d", "_", "v", "1">>

JsonDocuments ==
    {
     \* the handshake of the platform
     [text |-> <<"{", "\"", "c", "h", "a", "l", "l", "e", "n", "g", "e", "\"",
                 ":", "\"", "a", "b", "c", "\"", "}">>,
      value |->
        JDict([challenge |-> JStr(<<"a", "b", "c">>)])],
     \* a handshake that also names an event type
     [text |-> <<"{", "\"", "c", "h", "a", "l", "l", "e", "n", "g", "e", "\"",
                 ":", "\"", "a", "b", "c", "\"", ",", "\"", "h", "e", "a", "d",
                 "e", "r", "\"", ":", "{", "\"", "e", "v", "e", "n", "t", "_",
                 "t", "y", "p", "e", "\"", ":", "\"", "i", "m", ".", "m", "e",
                 "s", "s", "a", "g", "e", ".", "r", "e", "c", "e", "i", "v",
                 "e", "_", "v", "1", "\"", "}", "}">>,
      value |->
        JDict([challenge |-> JStr(<<"a", "b", "c">>),
               header |-> JDict([event_type |-> JStr(MessageReceive)])])],
     \* a message event
     [text |-> <<"{", "\"", "h", "e", "a", "d", "e", "r", "\"", ":", "{", "\"",
                 "e", "v", "e", "n", "t", "_", "t", "y", "p", "e", "\"", ":",
                 "\"", "i", "m", ".", "m", "e", "s", "s", "a", "g", "e", ".",
                 "r", "e", "c", "e", "i", "v", "e", "_", "v", "1", "\"", "}",
                 ",", "\"", "e", "v", "e", "n", "t", "\"", ":", "{", "\"", "m",
                 "e", "s", "s", "a", "g", "e", "\"", ":", "{", "\"", "c", "h",
                 "a", "t", "_", "i", "d", "\"", ":", "\"", "c", "\"", ",", "\"",
                 "m", "e", "s", "s", "a", "g", "e", "_", "i", "d", "\"", ":",
                 "\"", "m", "\"", ",", "\"", "c", "o", "n", "t", "e", "n", "t",
                 "\"", ":", "\"", "{", "\\", "\"", "t", "e", "x", "t", "\\",
                 "\"", ":", "\\", "\"", " ", "h", "i", " ", "\\", "\"", "}",
                 "\"", "}", ",", "\"", "s", "e", "n", "d", "e", "r", "\"", ":",
                 "{", "\"", "s", "e", "n", "d", "e", "r", "_", "i", "d", "\"",
                 ":", "{", "\"", "o", "p", "e", "n", "_", "i", "d", "\"", ":",
                 "\"", "u", "\"", "}", "}", "}", "}">>,
      value |->
        JDict([header |-> JDict([event_type |-> JStr(MessageReceive)]),
               event |-> JDict([message |-> JDict([chat_id |-> JStr(<<"c">>),
                                                   message_id |-> JStr(<<"m">>),
                                                   content |-> JStr(<<"{", "\"", "t", "e", "x", "t", "\"", ":", "\"", " ", "h", "i", " ", "\"", "}">>)]),
                                sender |-> JDict([sender_id |-> JDict([open_id |-> JStr(<<"u">>)])])])])],
     \* a message event whose content is not JSON
     [text |-> <<"{", "\"", "h", "e", "a", "d", "e", "r", "\"", ":", "{", "\"",
                 "e", "v", "e", "n", "t", "_", "t", "y", "p", "e", "\"", ":",
                 "\"", "i", "m", ".", "m", "e", "s", "s", "a", "g", "e", ".",
                 "r", "e", "c", "e", "i", "v", "e", "_", "v", "1", "\"", "}",
                 ",", "\"", "e", "v", "e", "n", "t", "\"", ":", "{", "\"", "m",
                 "e", "s", "s", "a", "g", "e", "\"", ":", "{", "\"", "c", "o",
                 "n", "t", "e", "n", "t", "\"", ":", "\"", "h", "i", "\"", "}",
                 "}", "}">>,
      value |->
        JDict([header |-> JDict([event_type |-> JStr(MessageReceive)]),
               event |-> JDict([message |-> JDict([content |-> JStr(<<"h", "i">>)])])])],
     \* a message event whose event is a string
     [text |-> <<"{", "\"", "h", "e", "a", "d", "e", "r", "\"", ":", "{", "\"",
                 "e", "v", "e", "n", "t", "_", "t", "y", "p", "e", "\"", ":",
                 "\"", "i", "m", ".", "m", "e", "s", "s", "a", "g", "e", ".",
                 "r", "e", "c", "e", "i", "v", "e", "_", "v", "1", "\"", "}",
                 ",", "\"", "e", "v", "e", "n", "t", "\"", ":", "\"", "x", "\"",
                 "}">>,
      value |->
        JDict([header |-> JDict([event_type |-> JStr(MessageReceive)]),
               event |-> JStr(<<"x">>)])],
     \* a message event whose sender is a string
     [text |-> <<"{", "\"", "h", "e", "a", "d", "e", "r", "\"", ":", "{", "\"",
                 "e", "v", "e", "n", "t", "_", "t", "y", "p", "e", "\"", ":",
                 "\"", "i", "m", ".", "m", "e", "s", "s", "a", "g", "e", ".",
                 "r", "e", "c", "e", "i", "v", "e", "_", "v", "1", "\"", "}",
                 ",", "\"", "e", "v", "e", "n", "t", "\"", ":", "{", "\"", "s",
                 "e", "n", "d", "e", "r", "\"", ":", "\"", "x", "\"", "}", "}">>,
      value |->
        JDict([header |-> JDict([event_type |-> JStr(MessageReceive)]),
               event |-> JDict([sender |-> JStr(<<"x">>)])])],
     \* a message event without event
     [text |-> <<"{", "\"", "h", "e", "a", "d", "e", "r", "\"", ":", "{", "\"",
                 "e", "v", "e", "n", "t", "_", "t", "y", "p", "e", "\"", ":",
                 "\"", "i", "m", ".", "m", "e", "s", "s", "a", "g", "e", ".",
                 "r", "e", "c", "e", "i", "v", "e", "_", "v", "1", "\"", "}",
                 "}">>,
      value |->
        JDict([header |-> JDict([event_type |-> JStr(MessageReceive)])])],
     \* a permission request
     [text |-> <<"{", "\"", "h", "e", "a", "d", "e", "r", "\"", ":", "{", "\"",
                 "e", "v", "e", "n", "t", "_", "t", "y", "p", "e", "\"", ":",
                 "\"", "d", "r", "i", "v", "e", ".", "f", "i", "l", "e", ".",
                 "p", "e", "r", "m", "i", "s", "s", "i", "o", "n", "_", "m",
                 "e", "m", "b", "e", "r", "_", "a", "p", "p", "l", "i", "e",
                 "d", "_", "v", "1", "\"", "}", ",", "\"", "e", "v", "e", "n",
                 "t", "\"", ":", "{", "\"", "f", "i", "l", "e", "_", "t", "o",
                 "k", "e", "n", "\"", ":", "\"", "f", "\"", ",", "\"", "f", "i",
                 "l", "e", "_", "t", "y", "p", "e", "\"", ":", "\"", "s", "h",
                 "e", "e", "t", "\"", ",", "\"", "o", "p", "e", "r", "a", "t",
                 "o", "r", "\"", ":", "{", "\"", "o", "p", "e", "n", "_", "i",
                 "d", "\"", ":", "\"", "u", "\"", "}", "}", "}">>,
      value |->
        JDict([header |-> JDict([event_type |-> JStr(PermissionApplied)]),
               event |-> JDict([file_token |-> JStr(<<"f">>),
                                file_type |-> JStr(<<"s", "h", "e", "e", "t">>),
                                operator |-> JDict([open_id |-> JStr(<<"u">>)])])])],
     \* a permission request without file_type
     [text |-> <<"{", "\"", "h", "e", "a", "d", "e", "r", "\"", ":", "{", "\"",
                 "e", "v", "e", "n", "t", "_", "t", "y", "p", "e", "\"", ":",
                 "\"", "d", "r", "i", "v", "e", ".", "f", "i", "l", "e", ".",
                 "p", "e", "r", "m", "i", "s", "s", "i", "o", "n", "_", "m",
                 "e", "m", "b", "e", "r", "_", "a", "p", "p", "l", "i", "e",
                 "d", "_", "v", "1", "\"", "}", ",", "\"", "e", "v", "e", "n",
                 "t", "\"", ":", "{", "\"", "f", "i", "l", "e", "_", "t", "o",
                 "k", "e", "n", "\"", ":", "\"", "f", "\"", ",", "\"", "o", "p",
                 "e", "r", "a", "t", "o", "r", "\"", ":", "{", "\"", "o", "p",
                 "e", "n", "_", "i", "d", "\"", ":", "\"", "u", "\"", "}", "}",
                 "}">>,
      value |->
        JDict([header |-> JDict([event_type |-> JStr(PermissionApplied)]),
               event |-> JDict([file_token |-> JStr(<<"f">>),
                                operator |-> JDict([open_id |-> JStr(<<"u">>)])])])],
     \* a permission request without file_token
     [text |-> <<"{", "\"", "h", "e", "a", "d", "e", "r", "\"", ":", "{", "\"",
                 "e", "v", "e", "n", "t", "_", "t", "y", "p", "e", "\"", ":",
                 "\"", "d", "r", "i", "v", "e", ".", "f", "i", "l", "e", ".",
                 "p", "e", "r", "m", "i", "s", "s", "i", "o", "n", "_", "m",
                 "e", "m", "b", "e", "r", "_", "a", "p", "p", "l", "i", "e",
                 "d", "_", "v", "1", "\"", "}", ",", "\"", "e", "v", "e", "n",
                 "t", "\"", ":", "{", "\"", "o", "p", "e", "r", "a", "t", "o",
                 "r", "\"", ":", "{", "\"", "o", "p", "e", "n", "_", "i", "d",
                 "\"", ":", "\"", "u", "\"", "}", "}", "}">>,
      value |->
        JDict([header |-> JDict([event_type |-> JStr(PermissionApplied)]),
               event |-> JDict([operator |-> JDict([open_id |-> JStr(<<"u">>)])])])],
     \* a permission request with an empty requester
     [text |-> <<"{", "\"", "h", "e", "a", "d", "e", "r", "\"", ":", "{", "\"",
                 "e", "v", "e", "n", "t", "_", "t", "y", "p", "e", "\"", ":",
                 "\"", "d", "r", "i", "v", "e", ".", "f", "i", "l", "e", ".",
                 "p", "e", "r", "m", "i", "s", "s", "i", "o", "n", "_", "m",
                 "e", "m", "b", "e", "r", "_", "a", "p", "p", "l", "i", "e",
                 "d", "_", "v", "1", "\"", "}", ",", "\"", "e", "v", "e", "n",
                 "t", "\"", ":", "{", "\"", "f", "i", "l", "e", "_", "t", "o",
                 "k", "e", "n", "\"", ":", "\"", "f", "\"", ",", "\"", "o", "p",
                 "e", "r", "a", "t", "o", "r", "\"", ":", "{", "\"", "o", "p",
                 "e", "n", "_", "i", "d", "\"", ":", "\"", "\"", "}", "}", "}">>,
      value |->
        JDict([header |-> JDict([event_type |-> JStr(PermissionApplied)]),
               event |-> JDict([file_token |-> JStr(<<"f">>),
                                operator |-> JDict([open_id |-> JStr(<<>>)])])])],
     \* a permission request whose operator is a string
     [text |-> <<"{", "\"", "h", "e", "a", "d", "e", "r", "\"", ":", "{", "\"",
                 "e", "v", "e", "n", "t", "_", "t", "y", "p", "e", "\"", ":",
                 "\"", "d", "r", "i", "v", "e", ".", "f", "i", "l", "e", ".",
                 "p", "e", "r", "m", "i", "s", "s", "i", "o", "n", "_", "m",
                 "e", "m", "b", "e", "r", "_", "a", "p", "p", "l", "i", "e",
                 "d", "_", "v", "1", "\"", "}", ",", "\"", "e", "v", "e", "n",
                 "t", "\"", ":", "{", "\"", "f", "i", "l", "e", "_", "t", "o",
                 "k", "e", "n", "\"", ":", "\"", "f", "\"", ",", "\"", "o", "p",
                 "e", "r", "a", "t", "o", "r", "\"", ":", "\"", "u", "\"", "}",
                 "}">>,
      value |->
        JDict([header |-> JDict([event_type |-> JStr(PermissionApplied)]),
               event |-> JDict([file_token |-> JStr(<<"f">>),
                                operator |-> JStr(<<"u">>)])])],
     \* an event of another type
     [text |-> <<"{", "\"", "h", "e", "a", "d", "e", "r", "\"", ":", "{", "\"",
                 "e", "v", "e", "n", "t", "_", "t", "y", "p", "e", "\"", ":",
                 "\"", "x", ".", "y", "\"", "}", "}">>,
      value |->
        JDict([header |-> JDict([event_type |-> JStr(<<"x", ".", "y">>)])])],
     \* a drive event that is no permission event
     [text |-> <<"{", "\"", "h", "e", "a", "d", "e", "r", "\"", ":", "{", "\"",
                 "e", "v", "e", "n", "t", "_", "t", "y", "p", "e", "\"", ":",
                 "\"", "d", "r", "i", "v", "e", ".", "f", "i", "l", "e", ".",
                 "e", "d", "i", "t", "_", "v", "1", "\"", "}", "}">>,
      value |->
        JDict([header |-> JDict([event_type |-> JStr(<<"d", "r", "i", "v", "e", ".", "f", "i", "l", "e", ".", "e", "d", "i", "t", "_", "v", "1">>)])])],
     \* a type that only begins like the message type
     [text |-> <<"{", "\"", "h", "e", "a", "d", "e", "r", "\"", ":", "{", "\"",
                 "e", "v", "e", "n", "t", "_", "t", "y", "p", "e", "\"", ":",
                 "\"", "i", "m", ".", "m", "e", "s", "s", "a", "g", "e", ".",
                 "r", "e", "c", "e", "i", "v", "e", "_", "v", "1", "0", "\"",
                 "}", "}">>,
      value |->
        JDict([header |-> JDict([event_type |-> JStr(<<"i", "m", ".", "m", "e", "s", "s", "a", "g", "e", ".", "r", "e", "c", "e", "i", "v", "e", "_", "v", "1", "0">>)])])],
     \* an object without event type
     [text |-> <<"{", "}">>,
      value |->
        JDict(<<>>)],
     \* the type only in event.type
     [text |-> <<"{", "\"", "e", "v", "e", "n", "t", "\"", ":", "{", "\"", "t",
                 "y", "p", "e", "\"", ":", "\"", "i", "m", ".", "m", "e", "s",
                 "s", "a", "g", "e", ".", "r", "e", "c", "e", "i", "v", "e",
                 "_", "v", "1", "\"", "}", "}">>,
      value |->
        JDict([event |-> JDict([type |-> JStr(MessageReceive)])])],
     \* both type fields, differing
     [text |-> <<"{", "\"", "h", "e", "a", "d", "e", "r", "\"", ":", "{", "\"",
                 "e", "v", "e", "n", "t", "_", "t", "y", "p", "e", "\"", ":",
                 "\"", "x", ".", "y", "\"", "}", ",", "\"", "e", "v", "e", "n",
                 "t", "\"", ":", "{", "\"", "t", "y", "p", "e", "\"", ":", "\"",
                 "i", "m", ".", "m", "e", "s", "s", "a", "g", "e", ".", "r",
                 "e", "c", "e", "i", "v", "e", "_", "v", "1", "\"", "}", "}">>,
      value |->
        JDict([header |-> JDict([event_type |-> JStr(<<"x", ".", "y">>)]),
               event |-> JDict([type |-> JStr(MessageReceive)])])],
     \* an empty header type and a nested type
     [text |-> <<"{", "\"", "h", "e", "a", "d", "e", "r", "\"", ":", "{", "\"",
                 "e", "v", "e", "n", "t", "_", "t", "y", "p", "e", "\"", ":",
                 "\"", "\"", "}", ",", "\"", "e", "v", "e", "n", "t", "\"", ":",
                 "{", "\"", "t", "y", "p", "e", "\"", ":", "\"", "d", "r", "i",
                 "v", "e", ".", "f", "i", "l", "e", ".", "p", "e", "r", "m",
                 "i", "s", "s", "i", "o", "n", "\"", "}", "}">>,
      value |->
        JDict([header |-> JDict([event_type |-> JStr(<<>>)]),
               event |-> JDict([type |-> JStr(DrivePermission)])])],
     \* a header type that is null and a nested type
     [text |-> <<"{", "\"", "h", "e", "a", "d", "e", "r", "\"", ":", "{", "\"",
                 "e", "v", "e", "n", "t", "_", "t", "y", "p", "e", "\"", ":",
                 "n", "u", "l", "l", "}", ",", "\"", "e", "v", "e", "n", "t",
                 "\"", ":", "{", "\"", "t", "y", "p", "e", "\"", ":", "\"", "x",
                 ".", "y", "\"", "}", "}">>,
      value |->
        JDict([header |-> JDict([event_type |-> JNone]),
               event |-> JDict([type |-> JStr(<<"x", ".", "y">>)])])],
     \* a header that is a string
     [text |-> <<"{", "\"", "h", "e", "a", "d", "e", "r", "\"", ":", "\"", "x",
                 "\"", "}">>,
      value |->
        JDict([header |-> JStr(<<"x">>)])],
     \* an event type that is a number
     [text |-> <<"{", "\"", "h", "e", "a", "d", "e", "r", "\"", ":", "{", "\"",
                 "e", "v", "e", "n", "t", "_", "t", "y", "p", "e", "\"", ":",
                 "5", "}", "}">>,
      value |->
        JDict([header |-> JDict([event_type |-> JInt(5)])])],
     \* a JSON array
     [text |-> <<"[", "1", "]">>,
      value |->
        JList(<<JInt(1)>>)],
     \* a JSON number
     [text |-> <<"5">>,
      value |->
        JInt(5)],
     \* the content of a text message
     [text |-> <<"{", "\"", "t", "e", "x", "t", "\"", ":", "\"", " ", "h", "i",
                 " ", "\"", "}">>,
      value |->
        JDict([text |-> JStr(<<" ", "h", "i", " ">>)])],
     \* a JSON string that holds a character outside ASCII
     [text |-> <<"\"", EAcute, "\"">>,
      value |->
        JStr(<<EAcute>>)]
    }

\* json.loads of a str
json_loads_text(text) ==
    IF \E d \in JsonDocuments : d.text = text
        THEN Returned((CHOOSE d \in JsonDocuments : d.text = text).value)
    ELSE Raised("JSONDecodeError")

\* json.loads of bytes: the bytes are decoded as UTF-8 first
json_loads(body) ==
    IF ~Utf8Valid(body) THEN Raised("UnicodeDecodeError")
    ELSE json_loads_text(Utf8Text(body))

(***************************************************************************)
(* The requests of the webhook specification.                              *)
(***************************************************************************)
EncryptKeys == {<<>>, <<"k">>}       \* ENCRYPT_KEY: unset, or set
Timestamps == {<<>>, <<"1">>, <<"1", "2">>}
Nonces == {<<>>, <<"2">>, <<"n">>}

\* the bytes of an ASCII text are its characters
Bodies ==
    {d.text : d \in {e \in JsonDocuments : IsAscii(e.text)}}
        \cup {<<>>,                              \* no body
              <<"n", "o", "p", "e">>,            \* no JSON
              <<"{", "0x80", "}">>,              \* no UTF-8
              <<"\"", "0xC3", "0xA9", "\"">>}    \* a JSON string, U+00E9

\* the digest a sender that holds key computes for a request
Signed(timestamp, nonce, key, body) ==
    Sha256Hex(timestamp \o nonce \o key \o Utf8Text(body))

\* the X-Lark-Signature headers tried for a request: none, the digests of
\* this and of other requests under the right and under a wrong key, and
\* the right digest with one character changed
Signatures(timestamp, nonce, body) ==
    LET texts == {b \in {body, <<"{", "}">>} : Utf8Valid(b)}
        good == Signed(timestamp, nonce, <<"k">>,
                       IF Utf8Valid(body) THEN body ELSE <<"{", "}">>)
    IN  {<<>>}
        \cup {Signed(t, n, k, b) :
                t \in Timestamps, n \in Nonces, k \in {<<"k">>, <<"j">>}, b \in texts}
        \cup {[good EXCEPT ![1] = "z"], [good EXCEPT ![Len(good)] = "z"],
              [good EXCEPT ![Len(good)] = EAcute]}

HookStart(key, timestamp, nonce, signature, body) ==
    [key |-> key, timestamp |-> timestamp, nonce |-> nonce,
     signature |-> signature, body |-> body,
     pc |-> "received", payload |-> JNone, event_type |-> JNone,
     locals |-> <<>>, steps |-> <<>>, collab |-> <<>>,
     status |-> 0, content |-> JNone, exc |-> "none"]

HookInit ==
    /\ \E key \in EncryptKeys, timestamp \in Timestamps, nonce \in Nonces,
          body \in Bodies :
            \E signature \in Signatures(timestamp, nonce, body) :
                hook = HookStart(key, timestamp, nonce, signature, body)
    /\ md = <<>>
    /\ parser = ParserIdle
    /\ WriterIdle
    /\ HostIdle

(***************************************************************************)
(* receive_event (lines 39-77), one action for each step of the function.  *)
(***************************************************************************)
\* return Response(status_code=..., content=...), or return a dict, which
\* the framework sends with status 200
Respond(h, status, content) ==
    [h EXCEPT !.pc = "responded", !.status = status, !.content = content]

\* an exception leaves receive_event: nothing in the module catches it and
\* the server answers the request with 500
Escape(h, e) ==
    [h EXCEPT !.pc = "escaped", !.exc = e, !.status = 500]

Step(h, name) == [h EXCEPT !.steps = Append(@, name)]

Unauthorized == JStr(<<"Unauthorized">>)
Accepted == JDict([code |-> JInt(0)])

\* the rejection without its return: the failure is logged and the
\* function goes on
VerifyWithoutReturn ==
    /\ hook.pc = "received"
    /\ LET r == verify_signature(hook.timestamp, hook.nonce, hook.key,
                                 hook.body, hook.signature)
           h == Step(hook, "verify")
       IN  hook' = IF r.exc # "none" THEN Escape(h, r.exc)
                   ELSE [h EXCEPT !.pc = "verified"]
    /\ UNCHANGED <<hostVars, md, parser, writeVars>>

\* lines 42-50
Verify ==
    /\ hook.pc = "received"
    /\ LET r == verify_signature(hook.timestamp, hook.nonce, hook.key,
                                 hook.body, hook.signature)
           h == Step(hook, "verify")
       IN  hook' = IF r.exc # "none" THEN Escape(h, r.exc)
                   ELSE IF ~r.value THEN Respond(h, 401, Unauthorized)
                   ELSE [h EXCEPT !.pc = "verified"]
    /\ UNCHANGED <<hostVars, md, parser, writeVars>>

\* lines 52-55
Decode ==
    /\ hook.pc = "verified"
    /\ LET r == json_loads(hook.body)
           h == Step(hook, "json.loads")
       IN  hook' = IF r.exc = "JSONDecodeError" THEN Respond(h, 400, JStr(<<"Invalid JSON">>))
                   ELSE IF r.exc # "none" THEN Escape(h, r.exc)
                   ELSE [h EXCEPT !.pc = "decoded", !.payload = r.value]
    /\ UNCHANGED <<hostVars, md, parser, writeVars>>

\* the handshake without its return: the echo is made up and the function
\* goes on to the routing
HandshakeWithoutReturn ==
    /\ hook.pc = "decoded"
    /\ LET found == PyIn("challenge",
                         <<"c", "h", "a", "l", "l", "e", "n", "g", "e">>,
                         hook.payload)
       IN  hook' = IF found.exc # "none" THEN Escape(hook, found.exc)
                   ELSE IF ~found.value THEN [hook EXCEPT !.pc = "routing"]
                   ELSE [Step(hook, "echo") EXCEPT !.pc = "routing"]
    /\ UNCHANGED <<hostVars, md, parser, writeVars>>

\* lines 57-60
Handshake ==
    /\ hook.pc = "decoded"
    /\ LET found == PyIn("challenge",
                         <<"c", "h", "a", "l", "l", "e", "n", "g", "e">>,
                         hook.payload)
           item == PyItem(hook.payload, "challenge")
       IN  hook' = IF found.exc # "none" THEN Escape(hook, found.exc)
                   ELSE IF ~found.value THEN [hook EXCEPT !.pc = "routing"]
                   ELSE IF item.exc # "none"
                       THEN Escape(Step(hook, "echo"), item.exc)
                   ELSE Respond(Step(hook, "echo"), 200,
                                JDict([challenge |-> item.value]))
    /\ UNCHANGED <<hostVars, md, parser, writeVars>>

\* the two fields read in the other order: the nested type first
EventTypeOfNestedFirst(payload) ==
    LET header == PyGet(payload, "header", JDict(<<>>))
        first == PyGet(header.value, "event_type", JNone)
        event == PyGet(payload, "event", JDict(<<>>))
        second == PyGet(event.value, "type", JNone)
    IN  IF event.exc # "none" THEN event
        ELSE IF second.exc # "none" THEN second
        ELSE IF Truthy(second.value) THEN second
        ELSE IF header.exc # "none" THEN header
        ELSE IF first.exc # "none" THEN first
        ELSE IF Truthy(first.value) THEN first
        ELSE Returned(JStr(<<"u", "n", "k", "n", "o", "w", "n">>))

\* payload.get("header", {}).get("event_type")
\*     or payload.get("event", {}).get("type") or "unknown"   (lines 62-66)
EventTypeOf(payload) ==
    LET header == PyGet(payload, "header", JDict(<<>>))
        first == PyGet(header.value, "event_type", JNone)
        event == PyGet(payload, "event", JDict(<<>>))
        second == PyGet(event.value, "type", JNone)
    IN  IF header.exc # "none" THEN header
        ELSE IF first.exc # "none" THEN first
        ELSE IF Truthy(first.value) THEN first
        ELSE IF event.exc # "none" THEN event
        ELSE IF second.exc # "none" THEN second
        ELSE IF Truthy(second.value) THEN second
        ELSE Returned(JStr(<<"u", "n", "k", "n", "o", "w", "n">>))

\* lines 62-66
Classify ==
    /\ hook.pc = "routing"
    /\ LET r == EventTypeOf(hook.payload)
           h == Step(hook, "classify")
       IN  hook' = IF r.exc # "none" THEN Escape(h, r.exc)
                   ELSE [h EXCEPT !.pc = "classified", !.event_type = r.value]
    /\ UNCHANGED <<hostVars, md, parser, writeVars>>

\* the routing with the substring test on "drive" alone
RouteOnDrive(event_type) ==
    LET permission == PyIn("drive", <<"d", "r", "i", "v", "e">>, event_type)
        both == PyIn("im", <<"i", "m">>, event_type)
    IN  IF permission.exc # "none" THEN permission
        ELSE IF both.value THEN Returned("message")
        ELSE IF permission.value THEN Returned("permission")
        ELSE Returned("ack")

\* the branch of lines 70-75 an event type takes
Route(event_type) ==
    LET permission == PyIn("drive.file.permission", DrivePermission, event_type)
    IN  IF event_type.t = "str" /\ event_type.v = MessageReceive
            THEN Returned("message")
        ELSE IF permission.exc # "none" THEN permission
        ELSE IF permission.value THEN Returned("permission")
        ELSE Returned("ack")

\* lines 70-75: the if, the elif and the else
Dispatch ==
    /\ hook.pc = "classified"
    /\ LET r == Route(hook.event_type)
       IN  hook' = IF r.exc # "none" THEN Escape(hook, r.exc)
                   ELSE [hook EXCEPT !.pc = r.value]
    /\ UNCHANGED <<hostVars, md, parser, writeVars>>

\* the text of a message: lines 103-107, where every exception is caught
MessageText(message) ==
    LET raw == PyGet(message, "content", JStr(<<"{", "}">>))
        content == IF raw.value.t = "str" THEN json_loads_text(raw.value.v)
                   ELSE Raised("TypeError")
        text == PyGet(content.value, "text", JStr(<<>>))
    IN  IF content.exc # "none" \/ text.exc # "none" \/ text.value.t # "str"
            THEN JStr(<<>>)
        ELSE JStr(Strip(text.value.v))

\* _handle_message_receive (lines 84-111): the fields it logs, or the
\* exception that leaves it
handle_message_receive(payload) ==
    LET event == PyGet(payload, "event", JDict(<<>>))
        message == PyGet(event.value, "message", JDict(<<>>))
        sender0 == PyGet(event.value, "sender", JDict(<<>>))
        sender == PyGet(sender0.value, "sender_id", JDict(<<>>))
        chat_id == PyGet(message.value, "chat_id", JStr(<<>>))
        message_id == PyGet(message.value, "message_id", JStr(<<>>))
        sender_open_id == PyGet(sender.value, "open_id", JStr(<<>>))
    IN  IF event.exc # "none" THEN event
        ELSE IF message.exc # "none" THEN message
        ELSE IF sender0.exc # "none" THEN sender0
        ELSE IF sender.exc # "none" THEN sender
        ELSE IF chat_id.exc # "none" THEN chat_id
        ELSE IF message_id.exc # "none" THEN message_id
        ELSE IF sender_open_id.exc # "none" THEN sender_open_id
        ELSE Returned([chat_id |-> chat_id.value,
                       message_id |-> message_id.value,
                       sender_open_id |-> sender_open_id.value,
                       text |-> MessageText(message.value)])

\* line 71: await _handle_message_receive(payload)
MessageHandler ==
    /\ hook.pc = "message"
    /\ LET r == handle_message_receive(hook.payload)
           h == Step(hook, "message_handler")
       IN  hook' = IF r.exc # "none" THEN Escape(h, r.exc)
                   ELSE [h EXCEPT !.pc = "ack", !.locals = r.value]
    /\ UNCHANGED <<hostVars, md, parser, writeVars>>

\* _handle_drive_permission up to its guard (lines 124-128)
PermissionFields(payload) ==
    LET event == PyGet(payload, "event", JDict(<<>>))
        file_token == PyGet(event.value, "file_token", JStr(<<>>))
        file_type == PyGet(event.value, "file_type", JStr(<<"d", "o", "c", "x">>))
        operator == PyGet(event.value, "operator", JDict(<<>>))
        user_open_id == PyGet(operator.value, "open_id", JStr(<<>>))
    IN  IF event.exc # "none" THEN event
        ELSE IF file_token.exc # "none" THEN file_token
        ELSE IF file_type.exc # "none" THEN file_type
        ELSE IF operator.exc # "none" THEN operator
        ELSE IF user_open_id.exc # "none" THEN user_open_id
        ELSE Returned([file_token |-> file_token.value,
                       file_type |-> file_type.value,
                       user_open_id |-> user_open_id.value])

\* line 73 and lines 124-132: the fields are read; the handler returns when
\* one of the two it needs is missing or empty
PermissionHandler ==
    /\ hook.pc = "permission"
    /\ LET r == PermissionFields(hook.payload)
           h == Step(hook, "permission_handler")
       IN  hook' = IF r.exc # "none" THEN Escape(h, r.exc)
                   ELSE IF ~Truthy(r.value.file_token) \/ ~Truthy(r.value.user_open_id)
                       THEN [h EXCEPT !.pc = "ack", !.locals = r.value]
                   ELSE [h EXCEPT !.pc = "grant", !.locals = r.value]
    /\ UNCHANGED <<hostVars, md, parser, writeVars>>

\* build_text_with_at(...): a JSON string with the text of the notice
Notice == JStr(<<"{\"text\": \"You have been granted view access to the document. Click the link to visit.\"}">>)

\* for x in (value or []): the items a Python loop over the value visits;
\* a loop over a str visits its characters
Iterate(x) ==
    IF ~Truthy(x) THEN <<>>
    ELSE IF x.t = "str" THEN [k \in 1..Len(x.v) |-> JStr(<<x.v[k]>>)]
    ELSE IF x.t = "list" THEN x.v
    ELSE <<>>

View == JStr(<<"v", "i", "e", "w">>)

\* set_doc_permission (documents.py 559-607): the _post calls of
\* _add_member it makes, in order: one for each of member_open_ids as
\* "openid", then one for each of chat_ids as "openchat"
set_doc_permission(file_token, file_type, member_open_ids, chat_ids, perm_type) ==
    LET add_member(member_type, member_id) ==
            [path |-> [permissions |-> file_token],
             params |-> [type |-> file_type],
             payload |-> [member_type |-> member_type,
                          member_id |-> member_id,
                          perm |-> perm_type]]
        users == Iterate(member_open_ids)
        chats == Iterate(chat_ids)
    IN  [k \in 1..Len(users) |-> add_member("openid", users[k])]
            \o [k \in 1..Len(chats) |-> add_member("openchat", chats[k])]

\* grant_permission_request (documents.py 675-695): the call of line 694
\* passes four positional arguments, so its perm_type lands in the fourth
\* parameter of set_doc_permission, chat_ids, and the fifth, perm_type,
\* keeps its default "view"
grant_permission_request(file_token, file_type, user_open_id, perm_type) ==
    set_doc_permission(file_token, file_type, JList(<<user_open_id>>),
                       perm_type, View)

\* the _post calls made so far
PostsMade(h) == SelectSeq(h.collab, LAMBDA c : c.fn = "_post")

\* line 140: grant_permission_request(file_token, file_type, user_open_id,
\* "view"), one _post of it at a time; it returns after the last one, and
\* what a _post raises leaves it, is caught at line 149 and ends the handler
Grant ==
    /\ hook.pc = "grant"
    /\ LET posts == grant_permission_request(hook.locals.file_token,
                                             hook.locals.file_type,
                                             hook.locals.user_open_id, View)
           made == Len(PostsMade(hook))
       IN  IF made < Len(posts)
               THEN \E outcome \in {"returns", "raises"} :
                       hook' = [hook EXCEPT
                           !.collab = Append(@, [fn |-> "_post",
                                                 args |-> posts[made + 1],
                                                 outcome |-> outcome]),
                           !.pc = IF outcome = "returns" THEN "grant" ELSE "ack"]
           ELSE hook' = [hook EXCEPT !.pc = "notify"]
    /\ UNCHANGED <<hostVars, md, parser, writeVars>>

\* lines 143-147: send_message("open_id", user_open_id, build_text_with_at(..))
Notify ==
    /\ hook.pc = "notify"
    /\ \E outcome \in {"returns", "raises"} :
        hook' = [hook EXCEPT
            !.collab = Append(@, [fn |-> "send_message",
                                  args |-> <<JStr(<<"o", "p", "e", "n", "_", "i", "d">>),
                                             hook.locals.user_open_id,
                                             Notice>>,
                                  outcome |-> outcome]),
            !.pc = "ack"]
    /\ UNCHANGED <<hostVars, md, parser, writeVars>>

\* line 77: return {"code": 0}
Ack ==
    /\ hook.pc = "ack"
    /\ hook' = Respond(hook, 200, Accepted)
    /\ UNCHANGED <<hostVars, md, parser, writeVars>>

HookNext ==
    \/ Verify \/ Decode \/ Handshake \/ Classify \/ Dispatch
    \/ MessageHandler \/ PermissionHandler \/ Grant \/ Notify \/ Ack

SpecHook == HookInit /\ [][HookNext]_vars

(***************************************************************************)
(* Properties of the webhook specification.                                *)
(***************************************************************************)
\* the signature header is the digest of this request under ENCRYPT_KEY
SignatureIsDigest ==
    /\ Utf8Valid(hook.body)
    /\ hook.signature =
            <<"s", "h", "a", ":">> \o
                [k \in 1..Len(hook.timestamp \o hook.nonce \o hook.key
                                \o Utf8Text(hook.body)) |->
                    LET c == (hook.timestamp \o hook.nonce \o hook.key
                                \o Utf8Text(hook.body))[k]
                    IN  IF c = EAcute THEN "C3A9" ELSE c]

\* what the call of _verify_signature at line 48 gave, read from the state
\* after it
VerifyOutcome ==
    IF hook.steps = <<"verify">> /\ hook.pc = "escaped" THEN "raised"
    ELSE IF hook.steps = <<"verify">> /\ hook.pc = "responded" THEN "false"
    ELSE "true"

C14_TrueIffDigestElseFalse ==
    (hook.key # <<>> /\ hook.pc # "received") =>
        /\ VerifyOutcome = "true" <=> SignatureIsDigest
        /\ ~SignatureIsDigest => VerifyOutcome = "false"

\* C15: with an empty secret _verify_signature returns true for every
\* timestamp, nonce, body and signature, a missing one included, so no
\* request is answered 401 and every request reaches the decoding of its
\* body.
C15_OpenModeAcceptsAll ==
    (hook.key = <<>> /\ hook.pc # "received") =>
        /\ VerifyOutcome = "true"
        /\ hook.status # 401
        /\ Len(hook.steps) = 1 => hook.pc = "verified"
        /\ Len(hook.steps) >= 2 => hook.steps[2] = "json.loads"

\* without a secret a message event that carries no signature header at all
\* was accepted
C15_Witness ==
    /\ hook.key = <<>>
    /\ hook.signature = <<>>
    /\ hook.pc = "responded"
    /\ hook.status = 200
    /\ hook.content = Accepted
    /\ "message_handler" \in {hook.steps[k] : k \in 1..Len(hook.steps)}

StepSet == {hook.steps[k] : k \in 1..Len(hook.steps)}
Finished == hook.pc \in {"responded", "escaped"}

\* C16 as claimed: when a dispatched handler throws, whatever the reason,
\* wrongly typed fields of the event included, the exception is caught and
\* the request still ends with 200 {"code": 0}.
C16_HandlerFailureStillAcked ==
    (Finished /\ StepSet \cap {"message_handler", "permission_handler"} # {}) =>
        /\ hook.pc = "responded"
        /\ hook.status = 200
        /\ hook.content = Accepted

\* C17: a verified payload that decodes to an object with a top-level
\* challenge field is answered 200 {"challenge": <the same value>} and the
\* function stops there: no event type is read and no handler or
\* collaborator runs, also when the payload names a known event type.
C17_ChallengeEchoedAndStops ==
    (/\ hook.pc \notin {"received", "verified", "decoded"}
     /\ hook.payload.t = "dict"
     /\ "challenge" \in DOMAIN hook.payload.v) =>
        /\ hook.pc = "responded"
        /\ hook.status = 200
        /\ hook.content = [t |-> "dict", v |-> [challenge |-> hook.payload.v.challenge]]
        /\ hook.steps = <<"verify", "json.loads", "echo">>
        /\ hook.event_type = JNone
        /\ hook.collab = <<>>

\* a signed handshake that also names the message event type was echoed
C17_Witness ==
    /\ hook.key = <<"k">>
    /\ hook.pc = "responded"
    /\ hook.status = 200
    /\ hook.content = JDict([challenge |-> JStr(<<"a", "b", "c">>)])
    /\ "header" \in DOMAIN hook.payload.v
    /\ hook.payload.v.header = JDict([event_type |-> JStr(MessageReceive)])

\* the body is a JSON text: it is UTF-8 and one of the JSON documents
BodyIsJson ==
    /\ Utf8Valid(hook.body)
    /\ \E d \in JsonDocuments : d.text = Utf8Text(hook.body)

\* C18 as claimed: a request that passes verification and whose body is not
\* a JSON text, whatever bytes it holds, is answered 400, and no echo,
\* classification or handler happens.
C18_UndecodableGets400 ==
    (Finished /\ "json.loads" \in StepSet /\ ~BodyIsJson) =>
        /\ hook.pc = "responded"
        /\ hook.status = 400
        /\ hook.steps = <<"verify", "json.loads">>
        /\ hook.collab = <<>>

\* C19 as claimed: every request ends in one of 200 with the echo, 200
\* {"code": 0}, 401 and 400; 401 only when the signature fails, 400 only
\* when the body is not JSON; no request ends in an unhandled error.
C19_FourOutcomesOnly ==
    Finished =>
        /\ hook.pc = "responded"
        /\ \/ hook.status = 200 /\ hook.content = Accepted
           \/ /\ hook.status = 200
              /\ hook.content.t = "dict"
              /\ DOMAIN hook.content.v = {"challenge"}
           \/ hook.status = 401 /\ hook.key # <<>> /\ ~SignatureIsDigest
           \/ hook.status = 400 /\ ~BodyIsJson

\* the handlers that were entered
Handlers == StepSet \cap {"message_handler", "permission_handler"}

FieldOf(payload, outer, inner) ==
    IF outer \in DOMAIN payload.v /\ payload.v[outer].t = "dict"
            /\ inner \in DOMAIN payload.v[outer].v
        THEN payload.v[outer].v[inner]
    ELSE JNone

\* a field that is absent, null or the empty string
IsEmptyField(x) == x \in {JNone, JStr(<<>>)}

Unknown == JStr(<<"u", "n", "k", "n", "o", "w", "n">>)

\* C21: the event type used for the dispatch is header.event_type whenever
\* that field is present and not empty, also when event.type is present with
\* another value; event.type is used only when header.event_type is absent
\* or empty, and "unknown" only when both are.  The handler that runs is the
\* one of that type and not the one of the field that lost.
C21_HeaderTypeFirst ==
    LET headerType == FieldOf(hook.payload, "header", "event_type")
        nestedType == FieldOf(hook.payload, "event", "type")
    IN  ("classify" \in StepSet /\ hook.event_type # JNone) =>
            /\ ~IsEmptyField(headerType) => hook.event_type = headerType
            /\ hook.event_type # headerType => IsEmptyField(headerType)
            /\ (IsEmptyField(headerType) /\ ~IsEmptyField(nestedType)) =>
                    hook.event_type = nestedType
            /\ (IsEmptyField(headerType) /\ IsEmptyField(nestedType)) <=>
                    hook.event_type = Unknown
            /\ (~IsEmptyField(headerType) /\ headerType # JStr(MessageReceive)) =>
                    "message_handler" \notin StepSet
            /\ (~IsEmptyField(headerType) /\ headerType.t = "str"
                    /\ ~IsInfix(DrivePermission, headerType.v)) =>
                    "permission_handler" \notin StepSet

\* an event with header type x.y and nested type im.message.receive_v1 was
\* classified as x.y and acknowledged without the message handler
C21_Witness ==
    /\ hook.pc = "responded"
    /\ hook.status = 200
    /\ hook.payload.t = "dict"
    /\ FieldOf(hook.payload, "header", "event_type") = JStr(<<"x", ".", "y">>)
    /\ FieldOf(hook.payload, "event", "type") = JStr(MessageReceive)
    /\ hook.event_type = JStr(<<"x", ".", "y">>)
    /\ hook.steps = <<"verify", "json.loads", "classify">>

\* the one call that grants perm on the file to the requester
GrantToRequester(fields, perm) ==
    [path |-> [permissions |-> fields.file_token],
     params |-> [type |-> fields.file_type],
     payload |-> [member_type |-> "openid",
                  member_id |-> fields.user_open_id,
                  perm |-> perm]]

\* the permission handler got past its guard: the event carries a file
\* token and a requester
PermissionRequested ==
    /\ "permission_handler" \in StepSet
    /\ hook.pc \notin {"permission", "escaped"}
    /\ Truthy(hook.locals.file_token)
    /\ Truthy(hook.locals.user_open_id)

\* C22 as claimed: for a permission request with a file token and a
\* requester the handler first grants view access on the file to the
\* requester and then sends the requester one notification; the
\* notification follows a grant that succeeded and is never sent after a
\* grant that failed; nothing else is called.
C22_GrantThenOneNotice ==
    (PermissionRequested /\ hook.pc = "responded") =>
        /\ Len(hook.collab) >= 1
        /\ hook.collab[1].fn = "_post"
        /\ hook.collab[1].args = GrantToRequester(hook.locals, View)
        /\ hook.collab[1].outcome = "raises" => Len(hook.collab) = 1
        /\ hook.collab[1].outcome = "returns" =>
                /\ Len(hook.collab) = 2
                /\ hook.collab[2].fn = "send_message"
                /\ hook.collab[2].args[2] = hook.locals.user_open_id

PermTypes ==
    {View, JStr(<<"e", "d", "i", "t">>),
     JStr(<<"f", "u", "l", "l", "_", "a", "c", "c", "e", "s", "s">>)}

\* C23 as claimed: grant_permission_request(file_token, file_type,
\* user_open_id, perm_type) issues exactly one add-member call, with
\* member_type "openid", member_id the requester and perm the given
\* perm_type, and no "openchat" call and no other call.
C23_GrantsExactlyTheRequester ==
    /\ \A k \in 1..Len(hook.collab) :
            hook.collab[k].fn = "_post" =>
                /\ k = 1
                /\ hook.collab[k].args.payload.member_type = "openid"
    /\ (PermissionRequested /\ hook.pc = "grant") =>
            \A perm \in PermTypes :
                grant_permission_request(hook.locals.file_token,
                                         hook.locals.file_type,
                                         hook.locals.user_open_id, perm)
                    = <<GrantToRequester(hook.locals, perm)>>

\* the body decodes to an object that holds a challenge field
ChallengeInBody ==
    /\ json_loads(hook.body).exc = "none"
    /\ json_loads(hook.body).value.t = "dict"
    /\ "challenge" \in DOMAIN json_loads(hook.body).value.v

\* C28 as claimed: the challenge is echoed only after the verification has
\* passed; with a secret configured a body that holds a challenge field and
\* comes with a missing or wrong signature gets 401 and its challenge value
\* is never returned.
C28_ChallengeOnlyAfterVerification ==
    /\ "echo" \in StepSet =>
            /\ hook.steps[1] = "verify"
            /\ hook.key = <<>> \/ SignatureIsDigest
    /\ (hook.key # <<>> /\ ChallengeInBody /\ ~SignatureIsDigest /\ Finished) =>
            /\ hook.status = 401
            /\ hook.content = Unauthorized
            /\ "echo" \notin StepSet

\* the file token and the requester of a permission event as the payload
\* carries them, JNone when the payload does not
RequestedFile == FieldOf(hook.payload, "event", "file_token")
Requester ==
    LET operator == FieldOf(hook.payload, "event", "operator")
    IN  IF operator.t = "dict" /\ "open_id" \in DOMAIN operator.v
            THEN operator.v.open_id
        ELSE JNone

\* C29 as claimed: a permission event whose file token or requester open_id
\* is missing or empty leads to no grant, no notification and no other
\* external call, and the request is still answered 200 {"code": 0}.
C29_MissingFieldsNoCallStillAcked ==
    (/\ "permission_handler" \in StepSet
     /\ Finished
     /\ IsEmptyField(RequestedFile) \/ IsEmptyField(Requester)) =>
        /\ hook.collab = <<>>
        /\ hook.pc = "responded"
        /\ hook.status = 200
        /\ hook.content = Accepted

(***************************************************************************)
(* The MCP host (server.py 469-572).  The host runs its requests as tasks  *)
(* of one event loop: a task keeps the loop from its first statement until *)
(* it returns or suspends in an await.  Next to the document submission of *)
(* the writer specification a second call_tool request arrives at any      *)
(* moment; the function behind its tool is not followed, it returns a      *)
(* value or raises.                                                        *)
(***************************************************************************)
\* tools of dispatch_map with the arguments their lambdas index as
\* args["..."], in the order of evaluation (server.py 484-567)
ToolArgs ==
    [get_chat_members |-> <<"chat_id">>,
     write_document_markdown |-> <<"document_id", "markdown_content">>,
     grant_permission_request |-> <<"file_token", "file_type", "user_open_id">>]

OtherNames == DOMAIN ToolArgs \cup {"no_such_tool"}

OtherArguments ==
    {[k \in keys |-> "x"] :
        keys \in {{}, {"chat_id"}, {"document_id"},
                  {"document_id", "markdown_content"},
                  {"file_token", "file_type", "user_open_id", "perm_type"}}}

\* what the function behind a lambda does: it returns a value json.dumps
\* takes, returns one json.dumps refuses (a set), or raises
ToolOutcomes ==
    {[raised |-> NoError, result |-> EmptyDict, json |-> TRUE],
     [raised |-> NoError, result |-> [set |-> {1, 2}], json |-> FALSE],
     [raised |-> [type |-> "RuntimeError", message |-> [failure |-> "api_code"]],
      result |-> PyNone, json |-> TRUE],
     [raised |-> [type |-> "EnvironmentError",
                  message |-> [failure |-> "auth"]],
      result |-> PyNone, json |-> TRUE]}

\* the classes "except Exception" catches among those raised here
ExceptionClasses ==
    {"Exception", "RuntimeError", "EnvironmentError", "ValueError", "KeyError",
     "TypeError"}

\* _dispatch (server.py 480-572): an unknown name raises ValueError, an
\* argument the lambda indexes and the call lacks raises KeyError
dispatch(name, args, outcome) ==
    IF name \notin DOMAIN ToolArgs
        THEN [raised |-> [type |-> "ValueError",
                          message |-> [unknown_tool |-> name]],
              result |-> PyNone, json |-> TRUE]
    ELSE LET needed == ToolArgs[name]
             missing == {k \in 1..Len(needed) : needed[k] \notin DOMAIN args}
         IN  IF missing # {}
                 THEN [raised |-> [type |-> "KeyError",
                                   message |-> [key |-> needed[MinOf(missing)]]],
                       result |-> PyNone, json |-> TRUE]
             ELSE outcome

\* call_tool with an except clause for RuntimeError alone
call_tool_except_runtime_error(name, arguments, outcome) ==
    LET r == dispatch(name, arguments, outcome)
    IN  IF r.raised = NoError /\ r.json
            THEN [escaped |-> NoError, content |-> ToolSuccess(r.result)]
        ELSE IF r.raised = NoError
            THEN [escaped |-> [type |-> "TypeError"], content |-> <<>>]
        ELSE IF r.raised.type = "RuntimeError"
            THEN [escaped |-> NoError, content |-> ToolFailure(r.raised)]
        ELSE [escaped |-> r.raised, content |-> <<>>]

\* call_tool (server.py 469-477): the list it returns, or the exception
\* that leaves it; json.dumps of the result is inside the try
call_tool(name, arguments, outcome) ==
    LET r == dispatch(name, arguments, outcome)
        e == IF r.raised = NoError
                THEN [type |-> "TypeError",
                      message |-> [failure |-> "not_json_serializable"]]
             ELSE r.raised
    IN  IF r.raised = NoError /\ r.json
            THEN [escaped |-> NoError, content |-> ToolSuccess(r.result)]
        ELSE IF e.type \in ExceptionClasses
            THEN [escaped |-> NoError, content |-> ToolFailure(e)]
        ELSE [escaped |-> e, content |-> <<>>]

\* the positions of the submission at which its task is suspended in an
\* await: none, for _dispatch calls the tool as a plain function and the
\* delay of line 195 is time.sleep
YieldPoints == {}

\* the event loop is not held by the task of the submission
LoopFree == pc \in {"start", "done", "failed"} \cup YieldPoints

HostInputs ==
    {GeneratedDoc("paragraphs", n) : n \in {0, 1, BATCH_SIZE + 1}}
        \cup {GeneratedDoc("fenced", 3)}

HostInit ==
    /\ md \in HostInputs
    /\ parser = ParserIdle
    /\ document_id = "docA"
    /\ blocks = <<>>
    /\ pc = "start"
    /\ batch_start = 0
    /\ total_created = 0
    /\ last_data = EmptyDict
    /\ calls = <<>>
    /\ trace = <<>>
    /\ raised = NoError
    /\ result = EmptyDict
    /\ response = <<>>
    /\ hook = HookIdle
    /\ peer = HookIdle
    /\ auth = AuthIdle
    /\ other = [pc |-> "absent"]

\* a second request reaches the host
Arrive ==
    /\ other.pc = "absent"
    /\ \E name \in OtherNames, arguments \in OtherArguments :
        other' = [pc |-> "waiting", name |-> name, arguments |-> arguments,
                  arrived_at |-> pc]
    /\ UNCHANGED <<md, parser, writeVars, hook, peer, auth>>

\* the loop runs the task of the second request: call_tool from its first
\* statement to its return
OtherCallTool ==
    /\ other.pc = "waiting"
    /\ LoopFree
    /\ \E outcome \in ToolOutcomes :
        LET r == call_tool(other.name, other.arguments, outcome)
        IN  other' = [pc |-> "done", name |-> other.name,
                      arguments |-> other.arguments,
                      arrived_at |-> other.arrived_at, ran_at |-> pc,
                      tool |-> dispatch(other.name, other.arguments, outcome),
                      escaped |-> r.escaped, content |-> r.content]
    /\ UNCHANGED <<md, parser, writeVars, hook, peer, auth>>

HostNext == Next \/ Arrive \/ OtherCallTool

SpecHost == HostInit /\ [][HostNext]_vars

(***************************************************************************)
(* Properties of the host specification.                                   *)
(***************************************************************************)
\* C24 as claimed: while a document submission is in its pacing delay the
\* host can make progress on another request: a request that waits can be
\* started, the delay does not hold the event loop.
C24_DelayYields ==
    (pc = "sleep" /\ other.pc = "waiting") => ENABLED OtherCallTool

\* what the code does: a second request is only ever run before the
\* submission has begun or after call_tool has answered it
OtherRunsOutsideSubmission ==
    other.pc = "done" => other.ran_at \in {"start", "done", "failed"}

\* C27: call_tool never raises to the host.  For every tool name and
\* argument map, an unknown name, a missing argument and an exception of
\* the tool included, it returns exactly one text item: the JSON of the
\* result when the tool returned one, an object with an "error" entry when
\* anything failed.
C27_CallToolAlwaysAnswers ==
    /\ pc \in {"done", "failed"} =>
            /\ Len(response) = 1
            /\ response[1].type = "text"
    /\ pc = "done" => response[1].text = result
    /\ pc = "failed" => "error" \in DOMAIN response[1].text
    /\ pc = "raised" => ENABLED CallToolExcept
    /\ pc = "returned" => ENABLED CallToolReturns
    /\ other.pc = "done" =>
            /\ other.escaped = NoError
            /\ Len(other.content) = 1
            /\ other.content[1].type = "text"
            /\ (other.tool.raised = NoError /\ other.tool.json) =>
                    other.content[1].text = other.tool.result
            /\ (other.tool.raised # NoError \/ ~other.tool.json) =>
                    "error" \in DOMAIN other.content[1].text
            /\ other.name \notin DOMAIN ToolArgs =>
                    "error" \in DOMAIN other.content[1].text
            /\ (other.name = "write_document_markdown"
                    /\ "markdown_content" \notin DOMAIN other.arguments) =>
                    "error" \in DOMAIN other.content[1].text

\* a call of an unknown tool and a submission whose writer call failed were
\* both answered with an error item
C27_Witness ==
    /\ pc = "failed"
    /\ raised.type = "RuntimeError"
    /\ response = ToolFailure(raised)
    /\ other.pc = "done"
    /\ other.name = "no_such_tool"
    /\ other.escaped = NoError
    /\ "error" \in DOMAIN other.content[1].text

(***************************************************************************)
(* Two webhook requests at once.  receive_event is a coroutine of the      *)
(* event loop of the server: hook is the request whose task runs, peer the *)
(* one whose task is suspended, and the loop may switch between them.  The *)
(* code can be suspended at its awaits (lines 42, 71, 73); the model lets  *)
(* the loop switch before every step, which includes all of these.  Both   *)
(* requests see the same ENCRYPT_KEY, which is read once at import         *)
(* (line 19).                                                              *)
(***************************************************************************)
\* the bodies of the requests that are served together: the handshake, the
\* message and the permission events of the table, and the bodies that are
\* no JSON
HooksBodies ==
    {b \in Bodies :
        LET r == json_loads(b)
        IN  \/ r.exc # "none"
            \/ /\ r.value.t = "dict"
               /\ \/ DOMAIN r.value.v = {"challenge"}
                  \/ /\ "header" \in DOMAIN r.value.v
                     /\ r.value.v.header \in
                            {JDict([event_type |-> JStr(MessageReceive)]),
                             JDict([event_type |-> JStr(PermissionApplied)])}}

HooksRequests(key) ==
    UNION {{HookStart(key, <<"1">>, <<"2">>, signature, body) :
                signature \in {<<>>, Signed(<<"1">>, <<"2">>, <<"k">>,
                                    IF Utf8Valid(body) THEN body ELSE <<>>)}} :
           body \in HooksBodies}

HooksInit ==
    /\ \E key \in EncryptKeys :
        /\ hook \in HooksRequests(key)
        /\ peer \in HooksRequests(key)
    /\ md = <<>>
    /\ parser = ParserIdle
    /\ WriterIdle
    /\ other = OtherIdle
    /\ auth = AuthIdle

\* the loop resumes the task of the other request, and with the local
\* payload held in one place for both tasks
SwitchSharingPayload ==
    /\ peer.pc \notin {"idle", "responded", "escaped"}
    /\ hook' = [peer EXCEPT !.payload = hook.payload]
    /\ peer' = hook
    /\ UNCHANGED <<md, parser, writeVars, other, auth>>

\* the loop suspends the running task and resumes the task of the other
\* request, which finds its locals as it left them
Switch ==
    /\ peer.pc \notin {"idle", "responded", "escaped"}
    /\ hook' = peer
    /\ peer' = hook
    /\ UNCHANGED <<md, parser, writeVars, other, auth>>

HooksNext == HookNext \/ Switch

SpecHooks == HooksInit /\ [][HooksNext]_vars

(***************************************************************************)
(* Properties of the specification of two requests.                        *)
(***************************************************************************)
\* the handler a request has entered
HandlerOf(h) ==
    LET entered == {h.steps[k] : k \in 1..Len(h.steps)}
    IN  IF "message_handler" \in entered THEN "message_handler"
        ELSE IF "permission_handler" \in entered THEN "permission_handler"
        ELSE "none"

\* receive_event on a request that is served alone: the status and the
\* content of the answer and the handler that is entered
AloneOutcome(h) ==
    LET failed(handler) == [status |-> 500, content |-> JNone, handler |-> handler]
        verified == verify_signature(h.timestamp, h.nonce, h.key, h.body,
                                     h.signature)
        decoded == json_loads(h.body)
        found == PyIn("challenge", <<"c", "h", "a", "l", "l", "e", "n", "g", "e">>,
                      decoded.value)
        item == PyItem(decoded.value, "challenge")
        type == EventTypeOf(decoded.value)
        branch == Route(type.value)
    IN  IF verified.exc # "none" THEN failed("none")
        ELSE IF ~verified.value
            THEN [status |-> 401, content |-> Unauthorized, handler |-> "none"]
        ELSE IF decoded.exc = "JSONDecodeError"
            THEN [status |-> 400, content |-> JStr(<<"Invalid JSON">>),
                  handler |-> "none"]
        ELSE IF decoded.exc # "none" \/ found.exc # "none" THEN failed("none")
        ELSE IF found.value
            THEN IF item.exc # "none" THEN failed("none")
                 ELSE [status |-> 200,
                       content |-> JDict([challenge |-> item.value]),
                       handler |-> "none"]
        ELSE IF type.exc # "none" \/ branch.exc # "none" THEN failed("none")
        ELSE IF branch.value = "message"
            THEN IF handle_message_receive(decoded.value).exc # "none"
                     THEN failed("message_handler")
                 ELSE [status |-> 200, content |-> Accepted,
                       handler |-> "message_handler"]
        ELSE IF branch.value = "permission"
            THEN IF PermissionFields(decoded.value).exc # "none"
                     THEN failed("permission_handler")
                 ELSE [status |-> 200, content |-> Accepted,
                       handler |-> "permission_handler"]
        ELSE [status |-> 200, content |-> Accepted, handler |-> "none"]

\* the answer and the handler of a request are those of the request alone
SameAsAlone(h) ==
    /\ HandlerOf(h) \in {"none", AloneOutcome(h).handler}
    /\ h.pc \in {"responded", "escaped"} =>
            [status |-> h.status, content |-> h.content,
             handler |-> HandlerOf(h)] = AloneOutcome(h)

\* the request a record serves
RequestOf(h) ==
    [key |-> h.key, timestamp |-> h.timestamp, nonce |-> h.nonce,
     signature |-> h.signature, body |-> h.body]

\* C25: webhook handling is request-scoped.  However the steps of two
\* simultaneous requests interleave, each request gets the answer and the
\* handler it gets when it is served alone; a step of one request changes
\* nothing of the other request, and what both read, ENCRYPT_KEY, is
\* changed by no step.
C25_RequestScoped ==
    /\ [](SameAsAlone(hook) /\ SameAsAlone(peer) /\ hook.key = peer.key)
    /\ [][\/ hook' = peer /\ peer' = hook
          \/ /\ peer' = peer
             /\ RequestOf(hook') = RequestOf(hook)]_vars

\* a handshake was answered with its echo while a permission request was
\* suspended in the middle of its grant
C25_Witness ==
    /\ hook.pc = "responded"
    /\ hook.status = 200
    /\ hook.content = JDict([challenge |-> JStr(<<"a", "b", "c">>)])
    /\ hook.steps = <<"verify", "json.loads", "echo">>
    /\ peer.pc = "grant"
    /\ Len(peer.collab) = 1

(***************************************************************************)
(* The token cache (auth.py 22-72).  Time is in seconds; the clock moves   *)
(* forward by one of ClockSteps.  A call of get_tenant_access_token is one *)
(* step: the function has no await and the module no second thread.       *)
(***************************************************************************)
MaxTicks == 5
\* seconds that pass between two looks at the clock
ClockSteps == {100, 200}
RefreshMargin == 300    \* line 50
DefaultExpire == 7200   \* line 70

\* FEISHU_APP_ID and FEISHU_APP_SECRET as get_app_id and get_app_secret
\* find them (lines 27-42)
Environments == {"configured", "app_id_missing", "app_secret_placeholder"}

TokenA == JStr(<<"t", "-", "a">>)
TokenB == JStr(<<"t", "-", "b">>)

\* a response of the platform
Reply(status, body) ==
    [transport |-> FALSE, status |-> status, json |-> TRUE, body |-> body]

\* what client.post gives: the request fails in transport, or a response
\* with a status and a body that is JSON or not
HttpReplies ==
    {[transport |-> TRUE, status |-> 0, json |-> FALSE, body |-> JNone],
     [transport |-> FALSE, status |-> 200, json |-> FALSE, body |-> JNone],
     Reply(200, JDict([code |-> JInt(0), tenant_access_token |-> TokenA,
                       expire |-> JInt(400)])),
     Reply(200, JDict([code |-> JInt(0), tenant_access_token |-> TokenB,
                       expire |-> JInt(500)])),
     Reply(200, JDict([code |-> JInt(0), tenant_access_token |-> TokenB,
                       expire |-> JInt(200)])),
     Reply(200, JDict([code |-> JInt(0), tenant_access_token |-> TokenA])),
     Reply(200, JDict([code |-> JInt(0), tenant_access_token |-> JStr(<<>>),
                       expire |-> JInt(400)])),
     Reply(200, JDict([code |-> JInt(0), tenant_access_token |-> TokenB,
                       expire |-> JStr(<<"7", "2", "0", "0">>)])),
     Reply(200, JDict([code |-> JInt(0), tenant_access_token |-> TokenB,
                       expire |-> JNone])),
     Reply(200, JDict([code |-> JInt(0)])),
     Reply(200, JDict([code |-> JInt(99), msg |-> JStr(<<"x">>)])),
     Reply(200, JList(<<JInt(1)>>)),
     Reply(500, JDict([code |-> JInt(0), tenant_access_token |-> TokenB,
                       expire |-> JInt(400)]))}

\* the cache test with the margin left out: now < _tenant_token_expire
get_tenant_access_token_no_margin(cache, now, env, reply) ==
    LET data == reply.body
        code == PyGet(data, "code", JNone)
        token == PyItem(data, "tenant_access_token")
        expire == PyGet(data, "expire", JInt(DefaultExpire))
        fails(http, e) ==
            [cache |-> cache, http |-> http, assigned |-> {},
             outcome |-> Raised(e)]
    IN  IF Truthy(cache.tenant_token) /\ now < cache.tenant_token_expire
            THEN [cache |-> cache, http |-> FALSE, assigned |-> {},
                  outcome |-> Returned(cache.tenant_token)]
        ELSE IF env # "configured" THEN fails(FALSE, "EnvironmentError")
        ELSE IF reply.transport THEN fails(TRUE, "TransportError")
        ELSE IF reply.status >= 400 THEN fails(TRUE, "HTTPStatusError")
        ELSE IF ~reply.json THEN fails(TRUE, "JSONDecodeError")
        ELSE IF code.exc # "none" THEN fails(TRUE, code.exc)
        ELSE IF code.value # JInt(0) THEN fails(TRUE, "RuntimeError")
        ELSE IF token.exc # "none" THEN fails(TRUE, token.exc)
        ELSE IF expire.value.t # "int"
            THEN [cache |-> [cache EXCEPT !.tenant_token = token.value],
                  http |-> TRUE, assigned |-> {"tenant_token"},
                  outcome |-> Raised("TypeError")]
        ELSE [cache |-> [tenant_token |-> token.value,
                         tenant_token_expire |-> now + expire.value.v],
              http |-> TRUE,
              assigned |-> {"tenant_token", "tenant_token_expire"},
              outcome |-> Returned(token.value)]

\* get_tenant_access_token (lines 45-72) at time now: the cache after the
\* call, whether a request was sent, the globals that were assigned and
\* what the call returned or raised.  The statements run in the order of
\* the source: the cache test, the credentials, the request,
\* raise_for_status, resp.json(), the code test, and then the two
\* assignments, each of which can raise on its right-hand side
get_tenant_access_token(cache, now, env, reply) ==
    LET data == reply.body
        code == PyGet(data, "code", JNone)
        token == PyItem(data, "tenant_access_token")
        expire == PyGet(data, "expire", JInt(DefaultExpire))
        fails(http, e) ==
            [cache |-> cache, http |-> http, assigned |-> {},
             outcome |-> Raised(e)]
    IN  IF Truthy(cache.tenant_token)
                /\ now < cache.tenant_token_expire - RefreshMargin
            THEN [cache |-> cache, http |-> FALSE, assigned |-> {},
                  outcome |-> Returned(cache.tenant_token)]
        ELSE IF env # "configured" THEN fails(FALSE, "EnvironmentError")
        ELSE IF reply.transport THEN fails(TRUE, "TransportError")
        ELSE IF reply.status >= 400 THEN fails(TRUE, "HTTPStatusError")
        ELSE IF ~reply.json THEN fails(TRUE, "JSONDecodeError")
        ELSE IF code.exc # "none" THEN fails(TRUE, code.exc)
        ELSE IF code.value # JInt(0) THEN fails(TRUE, "RuntimeError")
        ELSE IF token.exc # "none" THEN fails(TRUE, token.exc)
        ELSE IF expire.value.t # "int"
            THEN [cache |-> [cache EXCEPT !.tenant_token = token.value],
                  http |-> TRUE, assigned |-> {"tenant_token"},
                  outcome |-> Raised("TypeError")]
        ELSE [cache |-> [tenant_token |-> token.value,
                         tenant_token_expire |-> now + expire.value.v],
              http |-> TRUE,
              assigned |-> {"tenant_token", "tenant_token_expire"},
              outcome |-> Returned(token.value)]

\* lines 23-24: no token, expiry 0.0
EmptyCache == [tenant_token |-> JNone, tenant_token_expire |-> 0]

\* no fetch has succeeded yet / no call has been made yet
NoFetch == [at |-> -1, lifetime |-> 0, token |-> JNone]
NoCall ==
    [at |-> -1, before |-> EmptyCache, since |-> NoFetch, env |-> "none",
     http |-> FALSE, assigned |-> {}, outcome |-> Returned(JNone)]

AuthInit ==
    /\ auth = [pc |-> "ready", cache |-> EmptyCache, now |-> 0,
               fetched |-> NoFetch, last |-> NoCall]
    /\ md = <<>>
    /\ parser = ParserIdle
    /\ WriterIdle
    /\ hook = HookIdle
    /\ peer = HookIdle
    /\ other = OtherIdle

\* time passes
Tick ==
    /\ \E d \in ClockSteps :
        /\ auth.now + d <= MaxTicks * 100
        /\ auth' = [auth EXCEPT !.now = @ + d]
    /\ UNCHANGED <<md, parser, writeVars, hook, peer, other>>

\* a call of get_tenant_access_token; fetched and last record the fetch
\* that last succeeded and this call
GetTenantAccessToken ==
    /\ \E env \in Environments, reply \in HttpReplies :
        LET r == get_tenant_access_token(auth.cache, auth.now, env, reply)
            fetch == r.http /\ r.outcome.exc = "none"
        IN  auth' = [auth EXCEPT
                !.cache = r.cache,
                !.fetched = IF fetch
                    THEN [at |-> auth.now,
                          lifetime |-> r.cache.tenant_token_expire - auth.now,
                          token |-> r.cache.tenant_token]
                    ELSE @,
                !.last = [at |-> auth.now, before |-> auth.cache,
                          since |-> auth.fetched, env |-> env,
                          http |-> r.http, assigned |-> r.assigned,
                          outcome |-> r.outcome]]
    /\ UNCHANGED <<md, parser, writeVars, hook, peer, other>>

AuthNext == Tick \/ GetTenantAccessToken

SpecAuth == AuthInit /\ [][AuthNext]_vars

(***************************************************************************)
(* Properties of the token cache.                                          *)
(***************************************************************************)
\* the last call came after a fetch that succeeded, and before / not
\* before the moment t + e - 300 of that fetch
AfterFetch == auth.last.at >= 0 /\ auth.last.since # NoFetch
RefreshTime == auth.last.since.at + auth.last.since.lifetime - RefreshMargin

\* C26 as claimed: after a fetch of a token with lifetime e at time t every
\* later call before t + e - 300 returns that token and sends no request;
\* the first call at or after t + e - 300 sends a new request and replaces
\* the cached token and its expiry.
C26_CachedUntilMarginThenReplaced ==
    AfterFetch =>
        /\ auth.last.at < RefreshTime =>
                /\ ~auth.last.http
                /\ auth.last.outcome = Returned(auth.last.since.token)
        /\ auth.last.at >= RefreshTime =>
                /\ auth.last.http
                /\ auth.last.assigned = {"tenant_token", "tenant_token_expire"}
                /\ auth.fetched.at = auth.last.at

\* C26, amended: after a fetch of a non-empty token with lifetime e at time
\* t every later call before t + e - 300 returns that token, sends no
\* request and leaves the cache alone.  A call at or after t + e - 300
\* does not answer from the cache: with the credentials configured it
\* sends a request, without them it raises before any request; when the
\* fetch succeeds it replaces token and expiry (expiry = time of the call +
\* new lifetime) and returns the new token, and when it raises the cached
\* expiry stays, so that the next call tries again.
C26_CachedUntilMarginThenRefetched ==
    AfterFetch =>
        /\ (Truthy(auth.last.since.token) /\ auth.last.at < RefreshTime) =>
                /\ ~auth.last.http
                /\ auth.last.outcome = Returned(auth.last.since.token)
                /\ auth.cache = auth.last.before
        /\ auth.last.at >= RefreshTime =>
                /\ auth.last.http <=> auth.last.env = "configured"
                /\ auth.last.env # "configured" =>
                        auth.last.outcome = Raised("EnvironmentError")
                /\ auth.last.outcome.exc = "none" =>
                        /\ auth.last.http
                        /\ auth.fetched.at = auth.last.at
                        /\ auth.cache.tenant_token = auth.last.outcome.value
                        /\ auth.cache.tenant_token_expire =
                                auth.last.at + auth.fetched.lifetime
                        /\ auth.last.assigned =
                                {"tenant_token", "tenant_token_expire"}
                /\ auth.last.outcome.exc # "none" =>
                        auth.cache.tenant_token_expire =
                            auth.last.before.tenant_token_expire

\* token A was fetched with lifetime 400; the call 100 seconds later, at
\* t + e - 300, sent a request and put token B in its place
C26_Witness ==
    /\ auth.last.since = [at |-> 0, lifetime |-> 400, token |-> TokenA]
    /\ auth.last.at = 100
    /\ auth.last.http
    /\ auth.last.outcome = Returned(TokenB)
    /\ auth.cache = [tenant_token |-> TokenB, tenant_token_expire |-> 600]

\* C30 as claimed: a refresh that fails raises and leaves the cached token
\* and the cached expiry as they were; the cache is only ever changed by a
\* fetch that succeeded, and token and expiry are always assigned
\* together.
C30_FailedRefreshKeepsCache ==
    auth.last.at >= 0 =>
        /\ auth.last.outcome.exc # "none" =>
                /\ auth.cache = auth.last.before
                /\ auth.last.assigned = {}
        /\ auth.cache # auth.last.before =>
                (auth.last.http /\ auth.last.outcome.exc = "none")
        /\ auth.last.assigned \in {{}, {"tenant_token", "tenant_token_expire"}}

=============================================================================
